---- MODULE Spec2Model ----
(***************************************************************************)
(* Model of the webview side of the markdown live-render editor            *)
(* (src/src/webview/editor.ts): the frontmatter codec, the outgoing edit   *)
(* debounce and the inbound update scheduler.                              *)
(*                                                                         *)
(* Text is a sequence of one-character strings.  null is the tuple NULL.   *)
(***************************************************************************)
EXTENDS Integers, Sequences, FiniteSets, TLC

VARIABLES
  \* ---- the codec run on its own ----
  codecInput,                 \* the document handed to extractFrontmatter
  codecResult,                \* what extractFrontmatter returned (or NotRun)
  codecCombined,              \* what combineFrontmatter returned (or NotRun)
  codecBody,                  \* what ensureNoFrontmatterInEditorContent returned (or NotRun)
  codecOutgoing,              \* what sanitizeOutgoingMarkdown returned (or NotRun)
  \* ---- editor.ts module state ----
  editor,                     \* editor: Editor | null
  isUpdatingFromExtension,
  currentVersion,
  pendingUpdate,
  updateDebounceTimer,        \* handle of the inbound timer (or NoTimer)
  lastLocalEditAt,
  currentFrontmatter,
  currentFrontmatterRawBlock,
  pendingOutgoingEdit,
  outgoingEditTimer,          \* handle of the outgoing timer (or NoTimer)
  lastKnownMarkdown,
  \* ---- environment: rich editor, clock, timers, transport ----
  editorMarkdown,             \* markdown held by the current rich-editor instance
  anchor,                     \* selection anchor of the rich editor
  mounted,                    \* the instance `editor` refers to is in the container
  creating,                   \* Editor.make()...create() promises still pending
  now,                        \* Date.now()
  timers,                     \* armed setTimeout callbacks
  posted,                     \* vscode.postMessage calls not yet taken by the host
  listenerPending,            \* markdownUpdated call the listener plug-in still owes
  hostText,                   \* text of the host's document
  \* ---- observation (history) ----
  lastStep,                   \* what the last handler run did
  loadedDoc,                  \* Document last loaded into the rich editor
  loadedBody,                 \* text handed to the rich editor on that load
  lastEdit,                   \* last user edit: fullMarkdown, time, messages posted since,
                              \*   edits the pending slot has taken since it was empty
  lastUpdate,                 \* last update message in Ready: content, time, commits since,
                              \*   updates the pending slot has taken since it was empty,
                              \*   was the pending update deferred
  lastCommit,                 \* last commit: content, user edit since, same content as the
                              \*   commit before with no edit between, what the commit did,
                              \*   what the commit before did, did restoring the selection throw
  lastInputAt,                \* time of the last keystroke or edit of the user
  inputs,                     \* update messages, edits and keystrokes so far
  \* ---- the extension host ----
  docText,                    \* document.getText()
  docVersion,                 \* document.version
  panel,                      \* each view's panel: "none", "open" or "disposed"
  listeners,                  \* views whose onDidChangeTextDocument listener is registered
  syncManagers,               \* the syncManagers entry of the document (or NoManager)
  isInternalChange,           \* the flag of the SyncManager each view constructed
  lastSentContent,            \* the lastSentContent entry of the document (or NULL)
  handlers,                   \* handleWebviewMessage calls awaiting applyEdit
  releaseTimers,              \* setTimeout(..., 0) callbacks of the edit case, by manager
  delivered,                  \* last update message posted to each view
  hostStep,                   \* what the host's last handler run did
  hostInputs,                 \* edit messages and foreign changes so far
  \* ---- the quick-insert menu of editor.ts ----
  textInBlock,                \* text of the current block before the cursor
  slashMenuVisible,
  slashTriggerPos,            \* position of the trigger (or NoPos)
  slashQuery,                 \* query the menu was last shown for
  slashChecks,                \* setTimeout(checkForSlashTrigger, 0) callbacks pending
  textAfterCursor,            \* text of the current block after the cursor
  slashMenuSelectedIndex,
  executed,                   \* what executeSlashCommand did, if the last handler run called it
  \* ---- extension.ts: the tabs of the active group ----
  tabs,                       \* tabs of the active tab group
  activeTab,                  \* its active tab (or NoTab)
  tabEvents,                  \* onDidChangeTabs events not yet handled
  toggled,                    \* what the toggle commands run in a row found and did
  tabInputs,                  \* tabs opened and commands run so far
  \* ---- the restoring of the selection, on its own ----
  cursorAnchor,               \* anchor saved before replaceAll
  cursorDocLength,            \* newView.state.doc.content.size
  cursorRestored,             \* position the selection was created at
  cursorDone                  \* the restore has run

codecVars == <<codecInput, codecResult, codecCombined, codecBody, codecOutgoing>>
stateVars == <<editor, isUpdatingFromExtension, currentVersion, pendingUpdate,
               updateDebounceTimer, lastLocalEditAt, currentFrontmatter,
               currentFrontmatterRawBlock, pendingOutgoingEdit, outgoingEditTimer,
               lastKnownMarkdown>>
envVars == <<editorMarkdown, anchor, mounted, creating, now, timers, posted,
             listenerPending, hostText>>
histVars == <<lastStep, loadedDoc, loadedBody, lastEdit, lastUpdate, lastCommit,
              lastInputAt, inputs>>
hostVars == <<docText, docVersion, panel, listeners, syncManagers, isInternalChange,
              lastSentContent, handlers, releaseTimers, delivered, hostStep, hostInputs>>
menuVars == <<textInBlock, slashMenuVisible, slashTriggerPos, slashQuery, slashChecks,
              textAfterCursor, slashMenuSelectedIndex, executed>>
tabVars == <<tabs, activeTab, tabEvents, toggled, tabInputs>>
cursorVars == <<cursorAnchor, cursorDocLength, cursorRestored, cursorDone>>
shellVars == <<menuVars, tabVars, cursorVars>>
vars == <<codecVars, stateVars, envVars, histVars, hostVars, shellVars>>

-----------------------------------------------------------------------------
(* Text *)

NULL == <<"null">>
NotRun == <<"not-run">>

\* No markdownUpdated call is owed
NoCall == [markdown |-> NULL, prevMarkdown |-> NULL]

LF == "\n"
CR == "\r"
SP == " "
TAB == "\t"
DASH == "-"

Fence == <<DASH, DASH, DASH>>

Min(S) == CHOOSE x \in S : \A y \in S : x <= y
Max(S) == CHOOSE x \in S : \A y \in S : x >= y

StartsWith(s, p) == Len(s) >= Len(p) /\ SubSeq(s, 1, Len(p)) = p

\* String.prototype.slice(n): the text from offset n (0-based) to the end
Slice(s, n) == SubSeq(s, n + 1, Len(s))

-----------------------------------------------------------------------------
(* FRONTMATTER_REGEX = /^---[ \t]*\r?\n([\s\S]*?)\r?\n---[ \t]*(\r?\n)?/     *)

IsBlank(c) == c \in {SP, TAB}

\* [ \t]* from index i: the index just after the longest run of blanks
SkipBlanks(s, i) ==
  CHOOSE j \in i..(Len(s) + 1) :
    /\ \A k \in i..(j - 1) : IsBlank(s[k])
    /\ (j = Len(s) + 1 \/ ~IsBlank(s[j]))

\* \r?\n at index i: the index just after it, or 0 when it does not match
MatchLineEnd(s, i) ==
  IF i <= Len(s) /\ s[i] = LF THEN i + 1
  ELSE IF i + 1 <= Len(s) /\ s[i] = CR /\ s[i + 1] = LF THEN i + 2
  ELSE 0

\* --- at index i
FenceAt(s, i) == i >= 1 /\ i + 2 <= Len(s) /\ SubSeq(s, i, i + 2) = Fence

\* The indices where the lazy group ([\s\S]*?) may stop: \r?\n--- follows
GroupEnds(s, from) ==
  { j \in from..Len(s) : MatchLineEnd(s, j) # 0 /\ FenceAt(s, MatchLineEnd(s, j)) }

\* markdown.match(FRONTMATTER_REGEX): [ok, whole (match[0]), group (match[1])]
NoMatch == [ok |-> FALSE, whole |-> <<>>, group |-> <<>>]

RegexMatch(s) ==
  IF ~FenceAt(s, 1) THEN NoMatch
  ELSE
    LET from == MatchLineEnd(s, SkipBlanks(s, 4)) IN
    IF from = 0 \/ GroupEnds(s, from) = {} THEN NoMatch
    ELSE
      LET j == Min(GroupEnds(s, from))            \* lazy: the first stop
          afterFence == MatchLineEnd(s, j) + 3
          afterBlanks == SkipBlanks(s, afterFence)
          lineEnd == MatchLineEnd(s, afterBlanks)  \* (\r?\n)? is optional
          stop == IF lineEnd # 0 THEN lineEnd ELSE afterBlanks
      IN [ok |-> TRUE,
          whole |-> SubSeq(s, 1, stop - 1),
          group |-> SubSeq(s, from, j - 1)]

-----------------------------------------------------------------------------
(* yaml.load of js-yaml, on the fragment of YAML the documents here use:   *)
(* one-line "key: value" entries, "- item" entries, a plain scalar, a      *)
(* date scalar, an empty document, and text that is not well-formed.       *)

PlainChars == {"a", "b", "x", "1"}
Digits == {"1"}

RECURSIVE SplitLines(_)
SplitLines(s) ==
  IF \A i \in 1..Len(s) : s[i] # LF THEN <<s>>
  ELSE LET k == Min({i \in 1..Len(s) : s[i] = LF})
       IN <<SubSeq(s, 1, k - 1)>> \o SplitLines(SubSeq(s, k + 1, Len(s)))

RECURSIVE RTrim(_)
RTrim(l) ==
  IF l # <<>> /\ l[Len(l)] \in {SP, TAB, CR} THEN RTrim(SubSeq(l, 1, Len(l) - 1)) ELSE l

RECURSIVE LTrimSpaces(_)
LTrimSpaces(l) == IF l # <<>> /\ l[1] = SP THEN LTrimSpaces(Tail(l)) ELSE l

IsWord(w) == w # <<>> /\ \A i \in 1..Len(w) : w[i] \in PlainChars \cup {DASH}

\* YYYY-MM-DD: the timestamp scalar, which js-yaml loads as a Date
IsDate(w) ==
  /\ Len(w) = 10
  /\ \A i \in {1, 2, 3, 4, 6, 7, 9, 10} : w[i] \in Digits
  /\ w[5] = DASH /\ w[8] = DASH

IsKey(k) == k # <<>> /\ \A i \in 1..Len(k) : k[i] \in PlainChars

ColonAt(l) == Min({i \in 1..Len(l) : l[i] = ":"})

IsMapEntry(l) ==
  /\ \E i \in 1..Len(l) : l[i] = ":"
  /\ LET c == ColonAt(l)
         rest == SubSeq(l, c + 1, Len(l))
     IN /\ IsKey(SubSeq(l, 1, c - 1))
        /\ \/ rest = <<>>
           \/ rest[1] = SP /\ IsWord(LTrimSpaces(rest))

MapKey(l) == SubSeq(l, 1, ColonAt(l) - 1)

IsSeqEntry(l) ==
  \/ l = <<DASH>>
  \/ Len(l) >= 3 /\ l[1] = DASH /\ l[2] = SP /\ IsWord(LTrimSpaces(Tail(l)))

\* The value yaml.load returns, by its JavaScript kind; "throw" is a YAMLException
yamlLoad(text) ==
  LET all == [i \in 1..Len(SplitLines(text)) |-> RTrim(SplitLines(text)[i])]
      nonblank == SelectSeq(all, LAMBDA l : l # <<>>)
      lines == IF nonblank # <<>> /\ nonblank[1] = Fence THEN Tail(nonblank) ELSE nonblank
  IN IF lines = <<>> THEN "undefined"
     ELSE IF \A i \in 1..Len(lines) : IsMapEntry(lines[i])
       THEN IF \A i, j \in 1..Len(lines) : i # j => MapKey(lines[i]) # MapKey(lines[j])
              THEN "mapping" ELSE "throw"          \* duplicated mapping key
     ELSE IF \A i \in 1..Len(lines) : IsSeqEntry(lines[i]) THEN "array"
     ELSE IF Len(lines) = 1 /\ IsDate(lines[1]) THEN "date"
     ELSE IF Len(lines) = 1 /\ IsWord(lines[1]) THEN "string"
     ELSE "throw"

\* JavaScript: !value
Falsy(v) == v \in {"undefined", "null"}

\* JavaScript: typeof value
TypeOf(v) ==
  CASE v \in {"mapping", "array", "date", "null"} -> "object"
    [] v = "string" -> "string"
    [] OTHER -> "undefined"

-----------------------------------------------------------------------------
(* extractFrontmatter / combineFrontmatter *)

Extraction(f, r, c) == [frontmatter |-> f, rawBlock |-> r, content |-> c]

\* extractFrontmatter rebuilding the block from the interior instead of
\* returning the matched text
extractFrontmatterReformatting(markdown) ==
  LET match == RegexMatch(markdown) IN
  IF ~match.ok THEN Extraction(NULL, NULL, markdown)
  ELSE
    LET frontmatterText == match.group
        parsed == yamlLoad(frontmatterText)
    IN IF parsed = "throw" THEN Extraction(NULL, NULL, markdown)
       ELSE IF Falsy(parsed) \/ TypeOf(parsed) # "object"
         THEN Extraction(NULL, NULL, markdown)
       ELSE Extraction(frontmatterText,
                       Fence \o <<LF>> \o frontmatterText \o <<LF>> \o Fence \o <<LF>>,
                       Slice(markdown, Len(match.whole)))

extractFrontmatter(markdown) ==
  LET match == RegexMatch(markdown) IN
  IF ~match.ok THEN Extraction(NULL, NULL, markdown)
  ELSE
    LET frontmatterText == match.group
        parsed == yamlLoad(frontmatterText)
    IN IF parsed = "throw" THEN Extraction(NULL, NULL, markdown)          \* catch
       ELSE IF Falsy(parsed) \/ TypeOf(parsed) # "object"
         THEN Extraction(NULL, NULL, markdown)
       ELSE Extraction(frontmatterText, match.whole,
                       Slice(markdown, Len(match.whole)))

\* combineFrontmatter forgetting the block
combineFrontmatterDropsBlock(rawBlock, content) == content

combineFrontmatter(rawBlock, content) ==
  IF rawBlock = NULL \/ rawBlock = <<>> THEN content ELSE rawBlock \o content


-----------------------------------------------------------------------------
(* The documents the codec is run on: a start marker, an interior, a line  *)
(* end, an end marker, a trailer and a body, each from a small set.        *)

Block == <<DASH, DASH, DASH, LF, "a", ":", SP, "1", LF, DASH, DASH, DASH, LF>>
BlockCRLF ==
  <<DASH, DASH, DASH, CR, LF, "a", ":", SP, "1", CR, LF, DASH, DASH, DASH, CR, LF>>

StartMarks ==
  { <<>>,
    <<DASH, DASH, DASH, LF>>,
    <<DASH, DASH, DASH, SP, TAB, LF>>,
    <<DASH, DASH, DASH, CR, LF>>,
    <<DASH, DASH, DASH>>,
    <<DASH, DASH, DASH, "x", LF>>,
    <<SP, DASH, DASH, DASH, LF>> }

Interiors ==
  { <<>>,
    <<"a", ":", SP, "1">>,
    <<"a", ":">>,
    <<"a", ":", SP, "1", LF, "b", ":", SP, "x">>,
    <<"a", ":", SP, "1", CR, LF, "b", ":", SP, "x">>,
    <<"a", ":", SP, "1", LF, "a", ":", SP, "x">>,
    <<"a">>,
    <<DASH, SP, "a">>,
    <<DASH, SP, "a", LF, DASH, SP, "b">>,
    <<"1", "1", "1", "1", DASH, "1", "1", DASH, "1", "1">>,
    <<"a", ":", SP, "[">>,
    <<SP>> }

LineEnds == { <<LF>>, <<CR, LF>> }

EndMarks ==
  { <<>>,
    <<DASH, DASH, DASH>>,
    <<DASH, DASH, DASH, SP>>,
    <<DASH, DASH, DASH, "x">>,
    <<DASH, DASH>> }

Trailers == { <<>>, <<LF>>, <<CR, LF>>, <<CR>> }

Bodies == { <<>>, <<"x">>, <<LF, "x", LF>>, Block \o <<"x">>, Block \o Block \o <<"x">> }

Docs ==
  { s \o i \o l \o e \o t \o b :
      s \in StartMarks, i \in Interiors, l \in LineEnds,
      e \in EndMarks, t \in Trailers, b \in Bodies }


-----------------------------------------------------------------------------
(* Constants of editor.ts and the bounds of the model *)

UPDATE_DEBOUNCE_MS == 30
USER_IDLE_BEFORE_EXTERNAL_APPLY_MS == 150
OUTGOING_EDIT_DEBOUNCE_MS == 16

Epoch == 1000           \* Date.now() when the webview script starts
Horizon == 50           \* user input and update messages stop after this long
MaxInputs == 4          \* update messages, edits and keystrokes in one run
MaxVersion == 2         \* document versions carried by update messages
MaxCreating == 2        \* editor creations that may be pending at once

MaxTime == Epoch + Horizon
Delays == {10}

NoTimer == 0

\* Documents the host sends, and markdown the rich editor serialises after an edit
UpdateDocs == { <<"x">>, BlockCRLF \o <<"x">>, Block \o Block \o <<"x">> }
EditorOutputs == { <<"y">>, <<"x", LF>>, Block \o <<"y">> }

-----------------------------------------------------------------------------
(* Helpers of editor.ts *)

RECURSIVE ReplaceCRLF(_)
ReplaceCRLF(s) ==
  IF s = <<>> THEN <<>>
  ELSE IF Len(s) >= 2 /\ s[1] = CR /\ s[2] = LF
    THEN <<LF>> \o ReplaceCRLF(SubSeq(s, 3, Len(s)))
  ELSE <<s[1]>> \o ReplaceCRLF(Tail(s))

\* the comparison made on the texts as they are
normalizeMarkdownForCompareAsIs(markdown) == markdown

\* markdown.replace(/\r\n/g, '\n')
normalizeMarkdownForCompare(markdown) == ReplaceCRLF(markdown)

ensureNoFrontmatterInEditorContent(content) ==
  IF ~StartsWith(content, Fence) THEN content
  ELSE LET extracted == extractFrontmatter(content)
       IN IF extracted.rawBlock # NULL /\ extracted.rawBlock # <<>>
            THEN extracted.content
            ELSE content

sanitizeOutgoingMarkdown(markdown) ==
  LET extracted == extractFrontmatter(markdown)
  IN IF extracted.rawBlock = NULL \/ extracted.rawBlock = <<>>
       THEN markdown
       ELSE extracted.content

\* Documents the markdownUpdated listener builds: the raw block stored for a
\* Document the host sent (or none) combined with the sanitised markdown of
\* the rich editor
EditDocs ==
  { combineFrontmatter(r, m) : r \in { NULL, Block, BlockCRLF },
                               m \in { <<"y">>, <<"x", LF>> } }

\* Documents an update message may carry: the host's own, and the session's
\* edits coming back as the document's text, with the line ends as they were
\* or as the document's end-of-line setting makes them
SessionDocs ==
  UpdateDocs \cup EditDocs \cup { ReplaceCRLF(d) : d \in UpdateDocs \cup EditDocs }

\* extractFrontmatter of each Document the host sends
Extracted == [d \in SessionDocs |-> extractFrontmatter(d)]

\* applyFrontmatterStateFromContent: stores the raw block and the interior
\* (renderFrontmatter stores the interior again) and returns the content
applyFrontmatterStateFromContent(markdown) ==
  /\ currentFrontmatterRawBlock' = Extracted[markdown].rawBlock
  /\ currentFrontmatter' = Extracted[markdown].frontmatter

\* The text initializeEditor / applyPendingUpdate / reinitializeEditor hand to
\* the rich editor for each Document the host sends
EditorContent ==
  [d \in SessionDocs |-> ensureNoFrontmatterInEditorContent(Extracted[d].content)]

safeEditorContent(content) == EditorContent[content]

-----------------------------------------------------------------------------
(* The environment: timers, the rich editor *)

\* a clearTimeout that cancels nothing
clearTimeoutKeeps(ts, handle) == ts

clearTimeout(ts, handle) == { t \in ts : t.id # handle }

\* The handle setTimeout returns: one no armed timer and no kept handle has
FreshId(ts, kept) ==
  Min({ i \in 1..(Cardinality(ts) + Cardinality(kept) + 1) :
          i \notin { t.id : t \in ts } \cup kept })

setTimeout(ts, id, fn, delay) ==
  ts \cup { [id |-> id, fn |-> fn, due |-> now + delay] }

\* The rich editor keeps a ProseMirror document; its markdown has LF line ends
Serialized(text) == ReplaceCRLF(text)

\* doc.content.size of a one-paragraph document holding `markdown`
DocSize(markdown) == Len(markdown) + 2


-----------------------------------------------------------------------------
(* The extension host: markdownEditorProvider.ts and syncManager.ts *)

MaxViews == 2           \* editor views opened on the one document
MaxHostInputs == 3      \* edit messages and foreign changes of the document in one run

Views == 1..MaxViews

\* No SyncManager under the document's key; a manager is named by the view whose
\* resolveCustomTextEditor call constructed it
NoManager == 0

\* The document when the first view opens, and the texts edits and foreign
\* changes give it
DocAtOpen == <<"d">>
HostTexts == { <<"a">>, <<"b">> }

\* No update message was posted to a view yet
NoUpdate == [content |-> NULL, version |-> 0]

HostInit ==
  /\ docText = DocAtOpen
  /\ docVersion = 1
  /\ panel = [v \in Views |-> "none"]
  /\ listeners = <<>>
  /\ syncManagers = NoManager
  /\ isInternalChange = [v \in Views |-> FALSE]
  /\ lastSentContent = NULL
  /\ handlers = <<>>
  /\ releaseTimers = <<>>
  /\ delivered = [v \in Views |-> NoUpdate]
  /\ hostStep = [op |-> "none", view |-> 0, late |-> FALSE, closed |-> FALSE,
                 posted |-> {}]
  /\ hostInputs = 0

-----------------------------------------------------------------------------
(* The quick-insert menu: checkForSlashTrigger, showSlashMenu, hideSlashMenu *)

MaxAnchor == 9          \* largest anchor saved before a replacement
MaxDocLength == 8       \* largest size of the new document's content

\* doc.content.size of the smallest document: the schema wants one block at
\* least, and a leaf block (a horizontal rule) has size 1
MinDocLength == 1

MaxBlockLen == 3        \* characters typed into the block
MaxChecks == 2          \* setTimeout(checkForSlashTrigger, 0) callbacks pending at once

SLASH == "/"
MenuChars == { SLASH, "a", "1", SP, DASH }

\* slashTriggerPos = null
NoPos == 0

\* [a-zA-Z0-9] and \s of the trigger's regular expression
IsAlnum(c) == c \in { "a", "1" }
IsWhite(c) == c \in { SP, TAB, LF, CR }

\* textInBlock.match(/(?:^|\s)(\/[a-zA-Z0-9]*)$/): the index the group starts
\* at, or 0 for no match
slashMatch(text) ==
  LET starts == { i \in 1..Len(text) :
                    /\ text[i] = SLASH
                    /\ i = 1 \/ IsWhite(text[i - 1])
                    /\ \A j \in (i + 1)..Len(text) : IsAlnum(text[j]) }
  IN IF starts = {} THEN 0 ELSE Min(starts)

\* The slashCommands list: id, title and keywords of each command
slashCommands ==
  <<
     [id |-> "h1",
      title |-> <<"H", "e", "a", "d", "i", "n", "g", " ", "1">>,
      keywords |-> { <<"h", "1">>, <<"h", "e", "a", "d", "i", "n", "g">>, <<"t", "i", "t", "l", "e">> } ],
     [id |-> "h2",
      title |-> <<"H", "e", "a", "d", "i", "n", "g", " ", "2">>,
      keywords |-> { <<"h", "2">>, <<"h", "e", "a", "d", "i", "n", "g">> } ],
     [id |-> "h3",
      title |-> <<"H", "e", "a", "d", "i", "n", "g", " ", "3">>,
      keywords |-> { <<"h", "3">>, <<"h", "e", "a", "d", "i", "n", "g">> } ],
     [id |-> "bullet",
      title |-> <<"B", "u", "l", "l", "e", "t", " ", "L", "i", "s", "t">>,
      keywords |-> { <<"b", "u", "l", "l", "e", "t">>, <<"l", "i", "s", "t">>, <<"u", "l">> } ],
     [id |-> "numbered",
      title |-> <<"N", "u", "m", "b", "e", "r", "e", "d", " ", "L", "i", "s", "t">>,
      keywords |-> { <<"n", "u", "m", "b", "e", "r", "e", "d">>, <<"l", "i", "s", "t">>, <<"o", "l">>, <<"o", "r", "d", "e", "r", "e", "d">> } ],
     [id |-> "quote",
      title |-> <<"B", "l", "o", "c", "k", "q", "u", "o", "t", "e">>,
      keywords |-> { <<"q", "u", "o", "t", "e">>, <<"b", "l", "o", "c", "k", "q", "u", "o", "t", "e">> } ],
     [id |-> "code",
      title |-> <<"C", "o", "d", "e", " ", "B", "l", "o", "c", "k">>,
      keywords |-> { <<"c", "o", "d", "e">>, <<"c", "o", "d", "e", "b", "l", "o", "c", "k">>, <<"s", "n", "i", "p", "p", "e", "t">> } ],
     [id |-> "table",
      title |-> <<"T", "a", "b", "l", "e">>,
      keywords |-> { <<"t", "a", "b", "l", "e">>, <<"g", "r", "i", "d">> } ],
     [id |-> "hr",
      title |-> <<"D", "i", "v", "i", "d", "e", "r">>,
      keywords |-> { <<"h", "r">>, <<"d", "i", "v", "i", "d", "e", "r">>, <<"l", "i", "n", "e">>, <<"s", "e", "p", "a", "r", "a", "t", "o", "r">> } ],
     [id |-> "link",
      title |-> <<"L", "i", "n", "k">>,
      keywords |-> { <<"l", "i", "n", "k">>, <<"u", "r", "l">>, <<"h", "r", "e", "f">> } ],
     [id |-> "bold",
      title |-> <<"B", "o", "l", "d">>,
      keywords |-> { <<"b", "o", "l", "d">>, <<"s", "t", "r", "o", "n", "g">> } ],
     [id |-> "italic",
      title |-> <<"I", "t", "a", "l", "i", "c">>,
      keywords |-> { <<"i", "t", "a", "l", "i", "c">>, <<"e", "m", "p", "h", "a", "s", "i", "s">>, <<"e", "m">> } ],
     [id |-> "strike",
      title |-> <<"S", "t", "r", "i", "k", "e", "t", "h", "r", "o", "u", "g", "h">>,
      keywords |-> { <<"s", "t", "r", "i", "k", "e">>, <<"s", "t", "r", "i", "k", "e", "t", "h", "r", "o", "u", "g", "h">>, <<"d", "e", "l">> } ],
     [id |-> "inline-code",
      title |-> <<"I", "n", "l", "i", "n", "e", " ", "C", "o", "d", "e">>,
      keywords |-> { <<"i", "n", "l", "i", "n", "e">>, <<"c", "o", "d", "e">>, <<"m", "o", "n", "o", "s", "p", "a", "c", "e">> } ]
  >>

\* String.prototype.toLowerCase on the letters the titles hold
UpperCase == ("B" :> "b") @@ ("C" :> "c") @@ ("D" :> "d") @@ ("H" :> "h") @@ ("I" :> "i") @@ ("L" :> "l") @@ ("N" :> "n") @@ ("S" :> "s") @@ ("T" :> "t")

toLowerCase(text) ==
  [i \in 1..Len(text) |-> IF text[i] \in DOMAIN UpperCase THEN UpperCase[text[i]]
                                                           ELSE text[i]]

\* String.prototype.includes
includes(text, part) ==
  \E i \in 1..(Len(text) - Len(part) + 1) : SubSeq(text, i, i + Len(part) - 1) = part

\* getFilteredCommands
getFilteredCommands(query) ==
  IF query = <<>> THEN slashCommands
  ELSE LET lowerQuery == toLowerCase(query)
       IN SelectSeq(slashCommands,
                    LAMBDA cmd : \/ includes(toLowerCase(cmd.title), lowerQuery)
                                 \/ \E kw \in cmd.keywords : includes(kw, lowerQuery))

\* What (slashMenuSelectedIndex + 1) % 0 gives
NaN == -1

\* No command has been executed
NoCommand == [command |-> "none", deleted |-> <<>>, query |-> <<>>]

MenuInit ==
  /\ textInBlock = <<>>
  /\ textAfterCursor = <<>>
  /\ slashMenuVisible = FALSE
  /\ slashMenuSelectedIndex = 0
  /\ slashTriggerPos = NoPos
  /\ slashQuery = <<>>
  /\ slashChecks = 0
  /\ executed = NoCommand

\* hideSlashMenu
hideSlashMenu ==
  /\ slashMenuVisible' = FALSE
  /\ slashTriggerPos' = NoPos

\* state.selection.from, counted in the block
CursorFrom == Len(textInBlock) + 1

\* getSlashQuery
getSlashQuery ==
  IF slashTriggerPos = NoPos THEN <<>>
  ELSE IF slashTriggerPos + 1 <= CursorFrom
    THEN SubSeq(textInBlock, slashTriggerPos + 1, CursorFrom - 1)
    ELSE <<>>

\* commands[index] is a command
HasCommand(commands, index) == index # NaN /\ index + 1 \in 1..Len(commands)

\* The user types the character c at the cursor: the keydown listener hides a
\* visible menu on a space, the input listener (and the keyup listener, for
\* "/") schedules checkForSlashTrigger
TypeChar(c) ==
  /\ Len(textInBlock) + Len(textAfterCursor) < MaxBlockLen
  /\ slashChecks + 2 <= MaxChecks
  /\ textInBlock' = Append(textInBlock, c)
  /\ IF slashMenuVisible /\ c = SP
       THEN hideSlashMenu
       ELSE UNCHANGED <<slashMenuVisible, slashTriggerPos>>
  /\ slashChecks' = slashChecks + (IF c = SLASH THEN 2 ELSE 1)
  /\ UNCHANGED <<textAfterCursor, slashQuery, slashMenuSelectedIndex>>
  /\ executed' = NoCommand
  /\ UNCHANGED <<codecVars, stateVars, envVars, histVars, hostVars, tabVars, cursorVars>>

\* Backspace removes the character before the cursor; the input listener
\* schedules checkForSlashTrigger
Backspace ==
  /\ textInBlock # <<>>
  /\ slashChecks + 1 <= MaxChecks
  /\ textInBlock' = SubSeq(textInBlock, 1, Len(textInBlock) - 1)
  /\ slashChecks' = slashChecks + 1
  /\ UNCHANGED <<textAfterCursor, slashMenuVisible, slashTriggerPos, slashQuery,
                 slashMenuSelectedIndex>>
  /\ executed' = NoCommand
  /\ UNCHANGED <<codecVars, stateVars, envVars, histVars, hostVars, tabVars, cursorVars>>

\* ArrowLeft / ArrowRight: handleSlashMenuKeydown returns false, the editor
\* moves the cursor, no input event is fired
MoveCursor(left) ==
  /\ IF left
       THEN /\ textInBlock # <<>>
            /\ textInBlock' = SubSeq(textInBlock, 1, Len(textInBlock) - 1)
            /\ textAfterCursor' = <<textInBlock[Len(textInBlock)]>> \o textAfterCursor
       ELSE /\ textAfterCursor # <<>>
            /\ textInBlock' = Append(textInBlock, Head(textAfterCursor))
            /\ textAfterCursor' = Tail(textAfterCursor)
  /\ UNCHANGED <<slashMenuVisible, slashTriggerPos, slashQuery, slashChecks,
                 slashMenuSelectedIndex>>
  /\ executed' = NoCommand
  /\ UNCHANGED <<codecVars, stateVars, envVars, histVars, hostVars, tabVars, cursorVars>>

\* executeSlashCommand(command); command.action() runs 10 ms later and is not
\* followed here
executeSlashCommand(command) ==
  /\ IF slashTriggerPos # NoPos /\ slashTriggerPos <= CursorFrom
       THEN /\ textInBlock' = SubSeq(textInBlock, 1, slashTriggerPos - 1)
            /\ executed' = [command |-> command.id,
                            deleted |-> SubSeq(textInBlock, slashTriggerPos, CursorFrom - 1),
                            query |-> slashQuery]
       ELSE /\ UNCHANGED textInBlock
            /\ executed' = [command |-> command.id, deleted |-> <<>>,
                            query |-> slashQuery]
  /\ hideSlashMenu

\* handleSlashMenuKeydown for ArrowDown (down) and ArrowUp, with the commands
\* the keydown listener filtered by getSlashQuery()
ArrowKey(down) ==
  /\ slashMenuVisible
  /\ LET commands == getFilteredCommands(getSlashQuery)
         n == Len(commands)
     IN slashMenuSelectedIndex' =
          IF n = 0 \/ slashMenuSelectedIndex = NaN THEN NaN
          ELSE IF down THEN (slashMenuSelectedIndex + 1) % n
          ELSE (slashMenuSelectedIndex - 1 + n) % n
  /\ UNCHANGED <<textInBlock, textAfterCursor, slashMenuVisible, slashTriggerPos,
                 slashQuery, slashChecks>>
  /\ executed' = NoCommand
  /\ UNCHANGED <<codecVars, stateVars, envVars, histVars, hostVars, tabVars, cursorVars>>

\* handleSlashMenuKeydown for Enter and Tab
EnterKey ==
  /\ slashMenuVisible
  /\ LET commands == getFilteredCommands(getSlashQuery)
     IN IF HasCommand(commands, slashMenuSelectedIndex)
          THEN executeSlashCommand(commands[slashMenuSelectedIndex + 1])
          ELSE /\ executed' = NoCommand
               /\ UNCHANGED <<textInBlock, slashMenuVisible, slashTriggerPos>>
  /\ UNCHANGED <<textAfterCursor, slashQuery, slashChecks, slashMenuSelectedIndex>>
  /\ UNCHANGED <<codecVars, stateVars, envVars, histVars, hostVars, tabVars, cursorVars>>

\* handleSlashMenuKeydown for Escape
EscapeKey ==
  /\ slashMenuVisible
  /\ hideSlashMenu
  /\ UNCHANGED <<textInBlock, textAfterCursor, slashQuery, slashChecks,
                 slashMenuSelectedIndex>>
  /\ executed' = NoCommand
  /\ UNCHANGED <<codecVars, stateVars, envVars, histVars, hostVars, tabVars, cursorVars>>

\* The mouseenter listener of the index-th item renderSlashMenu rendered
Hover(index) ==
  /\ slashMenuVisible
  /\ index + 1 \in 1..Len(getFilteredCommands(slashQuery))
  /\ slashMenuSelectedIndex' = index
  /\ UNCHANGED <<textInBlock, textAfterCursor, slashMenuVisible, slashTriggerPos,
                 slashQuery, slashChecks>>
  /\ executed' = NoCommand
  /\ UNCHANGED <<codecVars, stateVars, envVars, histVars, hostVars, tabVars, cursorVars>>

\* The click listener of the index-th item renderSlashMenu rendered
ClickItem(index) ==
  /\ slashMenuVisible
  /\ index + 1 \in 1..Len(getFilteredCommands(slashQuery))
  /\ executeSlashCommand(getFilteredCommands(slashQuery)[index + 1])
  /\ UNCHANGED <<textAfterCursor, slashQuery, slashChecks, slashMenuSelectedIndex>>
  /\ UNCHANGED <<codecVars, stateVars, envVars, histVars, hostVars, tabVars, cursorVars>>

\* checkForSlashTrigger, run by a setTimeout(..., 0) callback; showSlashMenu
\* selects the first command again
checkForSlashTrigger ==
  /\ slashChecks > 0
  /\ slashChecks' = slashChecks - 1
  /\ LET start == slashMatch(textInBlock)
     IN IF CursorFrom < 1
          THEN /\ IF slashMenuVisible THEN hideSlashMenu
                  ELSE UNCHANGED <<slashMenuVisible, slashTriggerPos>>
               /\ UNCHANGED <<slashQuery, slashMenuSelectedIndex>>
          ELSE IF start # 0
            THEN /\ slashTriggerPos' = IF slashTriggerPos = NoPos THEN start
                                                                  ELSE slashTriggerPos
                 /\ slashMenuVisible' = TRUE
                 /\ slashMenuSelectedIndex' = 0
                 /\ slashQuery' = SubSeq(textInBlock, start + 1, Len(textInBlock))
            ELSE /\ IF slashMenuVisible THEN hideSlashMenu
                    ELSE UNCHANGED <<slashMenuVisible, slashTriggerPos>>
                 /\ UNCHANGED <<slashQuery, slashMenuSelectedIndex>>
  /\ UNCHANGED <<textInBlock, textAfterCursor>>
  /\ executed' = NoCommand
  /\ UNCHANGED <<codecVars, stateVars, envVars, histVars, hostVars, tabVars, cursorVars>>

MenuNext ==
  \/ \E c \in MenuChars : TypeChar(c)
  \/ Backspace
  \/ \E left \in BOOLEAN : MoveCursor(left)
  \/ \E down \in BOOLEAN : ArrowKey(down)
  \/ EnterKey
  \/ EscapeKey
  \/ \E index \in 0..(Len(slashCommands) - 1) : Hover(index)
  \/ \E index \in 0..(Len(slashCommands) - 1) : ClickItem(index)
  \/ checkForSlashTrigger

-----------------------------------------------------------------------------
(* extension.ts: the toggle command and the tracking of diff views *)

MaxTabInputs == 4       \* tabs the user opens and toggle commands run

\* MarkdownEditorProvider.viewType, and the id of the built-in text editor
ViewType == "markdownLiveRender.editor"
DefaultEditor == "default"

\* uri.fsPath of the files that can be open
Paths == { <<"a", ".", "m", "d">>, <<"b", ".", "t", "x", "t">>, <<"c", ".", "M", "D">> }

\* fsPath.endsWith('.md')
EndsWithMd(path) ==
  /\ Len(path) >= 3
  /\ SubSeq(path, Len(path) - 2, Len(path)) = <<".", "m", "d">>

\* tab.input: TabInputText, TabInputCustom with this extension's view type,
\* TabInputCustom with another view type, TabInputTextDiff (uri: the modified side)
TabKinds == { "text", "custom", "foreign", "diff" }
NoTab == [kind |-> "none", uri |-> <<>>]

TabInit ==
  /\ tabs = {}
  /\ activeTab = NoTab
  /\ tabEvents = FALSE
  /\ toggled = <<>>
  /\ tabInputs = 0

\* The user opens a file in some editor; the tab becomes the active one
OpenTab(kind, path) ==
  /\ tabInputs < MaxTabInputs
  /\ tabInputs' = tabInputs + 1
  /\ LET tab == [kind |-> kind, uri |-> path]
     IN /\ tabs' = tabs \cup {tab}
        /\ activeTab' = tab
  /\ tabEvents' = TRUE
  /\ toggled' = <<>>
  /\ UNCHANGED <<codecVars, stateVars, envVars, histVars, hostVars, menuVars, cursorVars>>

\* The toggle command opening the rendered editor whatever the active tab shows
toggleTargetAlwaysRendered(tab) ==
  IF tab.kind \in {"custom", "foreign", "text"} /\ EndsWithMd(tab.uri)
    THEN ViewType
    ELSE "none"

\* The editor the toggle command opens the active tab's file with ("none": it
\* opens nothing)
toggleTarget(tab) ==
  IF tab.kind \in {"custom", "foreign"}
    THEN IF EndsWithMd(tab.uri) THEN DefaultEditor ELSE "none"
  ELSE IF tab.kind = "text"
    THEN IF EndsWithMd(tab.uri) THEN ViewType ELSE "none"
  ELSE "none"

\* The tab that vscode.openWith(uri, editor) opens
OpenedTab(path, target) ==
  [kind |-> IF target = DefaultEditor THEN "text" ELSE "custom", uri |-> path]

\* The last two toggle commands run in a row
LastTwo(s) == IF Len(s) > 2 THEN SubSeq(s, Len(s) - 1, Len(s)) ELSE s

\* The markdownLiveRender.toggle command. The platform opens the file in the
\* requested editor, in the place of the active tab or beside it, and makes it
\* the active tab.
Toggle ==
  /\ tabInputs < MaxTabInputs
  /\ tabInputs' = tabInputs + 1
  /\ LET target == IF activeTab = NoTab THEN "none" ELSE toggleTarget(activeTab)
     IN /\ toggled' = LastTwo(Append(toggled, [before |-> activeTab, opened |-> target]))
        /\ IF target = "none"
             THEN UNCHANGED <<tabs, activeTab, tabEvents>>
             ELSE /\ \E inPlace \in BOOLEAN :
                       tabs' = (IF inPlace THEN tabs \ {activeTab} ELSE tabs)
                                 \cup {OpenedTab(activeTab.uri, target)}
                  /\ activeTab' = OpenedTab(activeTab.uri, target)
                  /\ tabEvents' = TRUE
  /\ UNCHANGED <<codecVars, stateVars, envVars, histVars, hostVars, menuVars, cursorVars>>

\* urisInDiffView after the first loop of updateDiffTracking
urisInDiffView == { t.uri : t \in { d \in tabs : d.kind = "diff" } }

\* updateDiffTracking, run for an onDidChangeTabs event: the rendered editors
\* of files shown in a diff view are closed; the platform picks the next
\* active tab when the active one is closed
updateDiffTracking ==
  /\ tabEvents
  /\ LET customEditorsToClose ==
           { t \in tabs : t.kind = "custom" /\ t.uri \in urisInDiffView }
     IN /\ tabs' = tabs \ customEditorsToClose
        /\ tabEvents' = (customEditorsToClose # {})
        /\ IF activeTab \in customEditorsToClose
             THEN activeTab' \in tabs \ customEditorsToClose
             ELSE UNCHANGED activeTab
  /\ UNCHANGED <<toggled, tabInputs>>
  /\ UNCHANGED <<codecVars, stateVars, envVars, histVars, hostVars, menuVars, cursorVars>>

TabNext ==
  \/ \E kind \in TabKinds, path \in Paths : OpenTab(kind, path)
  \/ Toggle
  \/ updateDiffTracking

-----------------------------------------------------------------------------
(* Initial state: the module-level declarations of editor.ts, lines 46-72,  *)
(* and the 'ready' message posted when the script is loaded                 *)

NoResult == Extraction(NotRun, NotRun, NotRun)

SessionInit ==
  /\ codecResult = NoResult
  /\ codecCombined = NotRun
  /\ codecBody = NotRun
  /\ codecOutgoing = NotRun
  /\ editor = "null"
  /\ isUpdatingFromExtension = FALSE
  /\ currentVersion = 0
  /\ pendingUpdate = NULL
  /\ updateDebounceTimer = NoTimer
  /\ lastLocalEditAt = 0
  /\ currentFrontmatter = NULL
  /\ currentFrontmatterRawBlock = NULL
  /\ pendingOutgoingEdit = NULL
  /\ outgoingEditTimer = NoTimer
  /\ lastKnownMarkdown = <<>>
  /\ editorMarkdown = <<>>
  /\ anchor = 0
  /\ mounted = FALSE
  /\ creating = <<>>
  /\ now = Epoch
  /\ timers = {}
  /\ posted = << [type |-> "ready", content |-> NULL] >>
  /\ listenerPending = NoCall
  /\ hostText = NULL
  /\ lastStep = "start"
  /\ loadedDoc = NULL
  /\ loadedBody = NULL
  /\ lastEdit = [content |-> NULL, at |-> 0, sends |-> 0, n |-> 0, cause |-> "none"]
  /\ lastUpdate = [content |-> NULL, at |-> 0, commits |-> 0, n |-> 0, deferred |-> FALSE]
  /\ lastCommit = [content |-> NULL, edited |-> FALSE, repeat |-> FALSE, step |-> "none",
                   before |-> "none", restoreThrew |-> FALSE]
  /\ lastInputAt = 0
  /\ inputs = 0
  /\ HostInit
  /\ MenuInit
  /\ TabInit

\* No selection is being restored on its own
CursorAtRest ==
  /\ cursorAnchor = 0
  /\ cursorDocLength = MinDocLength
  /\ cursorRestored = 0
  /\ cursorDone = FALSE

Init == codecInput = <<>> /\ SessionInit /\ CursorAtRest

\* The environment may still send an update message, edit or type
InputAllowed == now < MaxTime /\ inputs < MaxInputs

-----------------------------------------------------------------------------
(* Outgoing edits *)

\* sendOutgoingEdit arming a new timer without clearing the one before
sendOutgoingEditNoClear(markdown) ==
  LET id == FreshId(timers, {updateDebounceTimer})
  IN /\ pendingOutgoingEdit' = markdown
     /\ outgoingEditTimer' = id
     /\ timers' = setTimeout(timers, id, "outgoing", OUTGOING_EDIT_DEBOUNCE_MS)

\* sendOutgoingEdit: replace the pending content and re-arm the 16 ms timer
sendOutgoingEdit(markdown) ==
  LET cleared == clearTimeout(timers, outgoingEditTimer)
      id == FreshId(cleared, {updateDebounceTimer})
  IN /\ pendingOutgoingEdit' = markdown
     /\ outgoingEditTimer' = id
     /\ timers' = setTimeout(cleared, id, "outgoing", OUTGOING_EDIT_DEBOUNCE_MS)

\* the listener taking every call for a change of the content
markdownUpdatedNoCompare(markdown, prevMarkdown, cause) ==
  IF ~isUpdatingFromExtension
    THEN LET safeMarkdown == sanitizeOutgoingMarkdown(markdown)
             fullMarkdown == combineFrontmatter(currentFrontmatterRawBlock, safeMarkdown)
         IN /\ lastLocalEditAt' = now
            /\ lastKnownMarkdown' = fullMarkdown
            /\ sendOutgoingEdit(lastKnownMarkdown')
            /\ lastEdit' = [content |-> lastKnownMarkdown', at |-> now, sends |-> 0,
                             n |-> IF pendingOutgoingEdit # NULL THEN lastEdit.n + 1 ELSE 1,
                             cause |-> cause]
            /\ lastCommit' = [lastCommit EXCEPT !.edited = TRUE]
            /\ lastInputAt' = now
            /\ lastStep' = "edit"
    ELSE /\ UNCHANGED <<lastLocalEditAt, lastKnownMarkdown, pendingOutgoingEdit,
                        outgoingEditTimer, timers, lastEdit, lastCommit, lastInputAt>>
         /\ lastStep' = "ignored"

\* The markdownUpdated listener of the rich editor
markdownUpdated(markdown, prevMarkdown, cause) ==
  IF ~isUpdatingFromExtension /\ markdown # prevMarkdown
    THEN LET safeMarkdown == sanitizeOutgoingMarkdown(markdown)
             fullMarkdown == combineFrontmatter(currentFrontmatterRawBlock, safeMarkdown)
         IN /\ lastLocalEditAt' = now
            /\ lastKnownMarkdown' = fullMarkdown
            /\ sendOutgoingEdit(lastKnownMarkdown')
            /\ lastEdit' = [content |-> lastKnownMarkdown', at |-> now, sends |-> 0,
                             n |-> IF pendingOutgoingEdit # NULL THEN lastEdit.n + 1 ELSE 1,
                             cause |-> cause]
            /\ lastCommit' = [lastCommit EXCEPT !.edited = TRUE]
            /\ lastInputAt' = now
            /\ lastStep' = "edit"
    ELSE /\ UNCHANGED <<lastLocalEditAt, lastKnownMarkdown, pendingOutgoingEdit,
                        outgoingEditTimer, timers, lastEdit, lastCommit, lastInputAt>>
         /\ lastStep' = "ignored"

\* The user changes the document of the rich editor (or the editor fires a
\* change event that changes nothing); the listener runs
UserEdit ==
  /\ editor # "null" /\ mounted
  /\ InputAllowed
  /\ inputs' = inputs + 1
  /\ \E markdown \in EditorOutputs \cup {editorMarkdown} :
       /\ editorMarkdown' = markdown
       /\ anchor' = IF markdown = editorMarkdown THEN anchor ELSE DocSize(markdown) - 1
       /\ markdownUpdated(markdown, editorMarkdown, "user")
  /\ UNCHANGED <<codecVars, hostVars, shellVars, editor, isUpdatingFromExtension, currentVersion, pendingUpdate,
                 updateDebounceTimer, currentFrontmatter, currentFrontmatterRawBlock,
                 mounted, creating, now, posted, listenerPending, hostText,
                 loadedDoc, loadedBody, lastUpdate>>

\* The listener plug-in makes the markdownUpdated call it owes for a replaceAll
ListenerFires ==
  /\ listenerPending # NoCall
  /\ editor # "null"
  /\ markdownUpdated(listenerPending.markdown, listenerPending.prevMarkdown, "replaceAll")
  /\ listenerPending' = NoCall
  /\ UNCHANGED <<codecVars, hostVars, shellVars, editor, isUpdatingFromExtension, currentVersion, pendingUpdate,
                 updateDebounceTimer, currentFrontmatter, currentFrontmatterRawBlock,
                 editorMarkdown, anchor, mounted, creating, now, posted, hostText,
                 loadedDoc, loadedBody, lastUpdate, inputs>>

\* The keydown listener of setupKeyboardShortcuts, for a typing key in the editor
KeyDown ==
  /\ editor # "null" /\ mounted
  /\ InputAllowed
  /\ inputs' = inputs + 1
  /\ lastLocalEditAt' = now
  /\ lastInputAt' = now
  /\ lastStep' = "keydown"
  /\ UNCHANGED <<codecVars, hostVars, shellVars, editor, isUpdatingFromExtension, currentVersion, pendingUpdate,
                 updateDebounceTimer, currentFrontmatter, currentFrontmatterRawBlock,
                 pendingOutgoingEdit, outgoingEditTimer, lastKnownMarkdown, envVars,
                 loadedDoc, loadedBody, lastEdit, lastUpdate, lastCommit>>

\* The callback sendOutgoingEdit arms
OutgoingTimerFires(t) ==
  /\ t.fn = "outgoing"
  /\ timers' = timers \ {t}
  /\ IF pendingOutgoingEdit # NULL
       THEN /\ posted' = Append(posted, [type |-> "edit", content |-> pendingOutgoingEdit])
            /\ pendingOutgoingEdit' = NULL
            /\ lastEdit' = [lastEdit EXCEPT !.sends = @ + 1]
            /\ lastStep' = "postEdit"
       ELSE /\ UNCHANGED <<posted, pendingOutgoingEdit, lastEdit>>
            /\ lastStep' = "nothingToPost"
  /\ UNCHANGED <<codecVars, hostVars, shellVars, editor, isUpdatingFromExtension, currentVersion, pendingUpdate,
                 updateDebounceTimer, lastLocalEditAt, currentFrontmatter,
                 currentFrontmatterRawBlock, outgoingEditTimer, lastKnownMarkdown,
                 editorMarkdown, anchor, mounted, creating, now, listenerPending, hostText,
                 loadedDoc, loadedBody, lastUpdate, lastCommit, lastInputAt, inputs>>


-----------------------------------------------------------------------------
(* Inbound updates *)

\* initializeEditor, up to the await of Editor.make()...create()
initializeEditor(content) ==
  /\ applyFrontmatterStateFromContent(content)
  /\ lastKnownMarkdown' = content
  /\ creating' = Append(creating, safeEditorContent(content))
  /\ loadedDoc' = content
  /\ loadedBody' = safeEditorContent(content)
  /\ lastStep' = "initializeEditor"
  /\ UNCHANGED <<pendingUpdate, updateDebounceTimer, timers, lastUpdate>>

\* updateEditorContent arming a new timer without clearing the one before
updateEditorContentNoClear(content) ==
  IF editor = "null"
    THEN initializeEditor(content)
    ELSE LET id == FreshId(timers, {outgoingEditTimer})
         IN /\ pendingUpdate' = content
            /\ updateDebounceTimer' = id
            /\ timers' = setTimeout(timers, id, "applyPendingUpdate", UPDATE_DEBOUNCE_MS)
            /\ lastUpdate' = [content |-> content, at |-> now, commits |-> 0,
                               n |-> IF pendingUpdate # NULL THEN lastUpdate.n + 1 ELSE 1,
                               deferred |-> pendingUpdate # NULL /\ lastUpdate.deferred]
            /\ lastStep' = "update"
            /\ UNCHANGED <<currentFrontmatter, currentFrontmatterRawBlock,
                           lastKnownMarkdown, creating, loadedDoc, loadedBody>>

\* updateEditorContent taking the received document into the cache at once
updateEditorContentCachesEarly(content) ==
  IF editor = "null"
    THEN initializeEditor(content)
    ELSE LET cleared == clearTimeout(timers, updateDebounceTimer)
             id == FreshId(cleared, {outgoingEditTimer})
         IN /\ pendingUpdate' = content
            /\ updateDebounceTimer' = id
            /\ timers' = setTimeout(cleared, id, "applyPendingUpdate", UPDATE_DEBOUNCE_MS)
            /\ lastUpdate' = [content |-> content, at |-> now, commits |-> 0,
                               n |-> IF pendingUpdate # NULL THEN lastUpdate.n + 1 ELSE 1,
                               deferred |-> pendingUpdate # NULL /\ lastUpdate.deferred]
            /\ lastStep' = "update"
            /\ lastKnownMarkdown' = content
            /\ UNCHANGED <<currentFrontmatter, currentFrontmatterRawBlock,
                           creating, loadedDoc, loadedBody>>

\* updateEditorContent
updateEditorContent(content) ==
  IF editor = "null"
    THEN initializeEditor(content)
    ELSE LET cleared == clearTimeout(timers, updateDebounceTimer)
             id == FreshId(cleared, {outgoingEditTimer})
         IN /\ pendingUpdate' = content
            /\ updateDebounceTimer' = id
            /\ timers' = setTimeout(cleared, id, "applyPendingUpdate", UPDATE_DEBOUNCE_MS)
            /\ lastUpdate' = [content |-> content, at |-> now, commits |-> 0,
                               n |-> IF pendingUpdate # NULL THEN lastUpdate.n + 1 ELSE 1,
                               deferred |-> pendingUpdate # NULL /\ lastUpdate.deferred]
            /\ lastStep' = "update"
            /\ UNCHANGED <<currentFrontmatter, currentFrontmatterRawBlock,
                           lastKnownMarkdown, creating, loadedDoc, loadedBody>>

\* the 'update' case taking a message with the version already stored for a
\* message seen before
onUpdateMessageOncePerVersion(content, version) ==
  /\ currentVersion' = version
  /\ IF version = currentVersion /\ editor # "null"
       THEN /\ lastStep' = "update"
            /\ UNCHANGED <<pendingUpdate, updateDebounceTimer, timers, lastUpdate,
                           currentFrontmatter, currentFrontmatterRawBlock,
                           lastKnownMarkdown, creating, loadedDoc, loadedBody>>
       ELSE updateEditorContent(content)

\* The 'update' case of the window 'message' listener
onUpdateMessage(content, version) ==
  /\ currentVersion' = version
  /\ updateEditorContent(content)

\* The text of the host's document as an update message carries it back
Echoes == IF hostText = NULL THEN {} ELSE { hostText, ReplaceCRLF(hostText) }

\* window 'message' listener: an update message arrives from the host
ReceiveUpdate ==
  /\ InputAllowed
  /\ inputs' = inputs + 1
  /\ editor = "null" => Len(creating) < MaxCreating
  /\ \E content \in UpdateDocs \cup Echoes, version \in 1..MaxVersion :
       /\ version >= currentVersion
       /\ onUpdateMessage(content, version)
       /\ hostText' = content
  /\ UNCHANGED <<codecVars, hostVars, shellVars, editor, isUpdatingFromExtension, lastLocalEditAt,
                 pendingOutgoingEdit, outgoingEditTimer, editorMarkdown, anchor, mounted,
                 now, posted, listenerPending, lastEdit, lastCommit, lastInputAt>>

\* Editor.make()...create() resolves: initializeEditor / reinitializeEditor go on
EditorCreated ==
  /\ \E i \in 1..Len(creating) :
       /\ editorMarkdown' = Serialized(creating[i])
       /\ creating' = SubSeq(creating, 1, i - 1) \o SubSeq(creating, i + 1, Len(creating))
  /\ editor' = "editor"
  /\ mounted' = TRUE
  /\ anchor' = 1
  /\ lastStep' = "created"
  /\ UNCHANGED <<codecVars, hostVars, shellVars, isUpdatingFromExtension, currentVersion, pendingUpdate,
                 updateDebounceTimer, lastLocalEditAt, currentFrontmatter,
                 currentFrontmatterRawBlock, pendingOutgoingEdit, outgoingEditTimer,
                 lastKnownMarkdown, now, timers, posted, listenerPending, hostText,
                 loadedDoc, loadedBody, lastEdit, lastUpdate, lastCommit, lastInputAt, inputs>>

\* the deferral waiting the whole idle threshold again
RemainingIdleFull(msSinceLocalEdit) == USER_IDLE_BEFORE_EXTERNAL_APPLY_MS

\* applyPendingUpdate: the delay of the re-armed timer when the user is typing
RemainingIdle(msSinceLocalEdit) == USER_IDLE_BEFORE_EXTERNAL_APPLY_MS - msSinceLocalEdit

\* the idle test with the comparison the wrong way round
UserIsTypingInverted(msSinceLocalEdit) ==
  msSinceLocalEdit > USER_IDLE_BEFORE_EXTERNAL_APPLY_MS

\* applyPendingUpdate: is the user still typing
\* an idle threshold no longer than the outbound window
UserIsTypingShortIdle(msSinceLocalEdit) == msSinceLocalEdit < OUTGOING_EDIT_DEBOUNCE_MS - 6

UserIsTyping(msSinceLocalEdit) == msSinceLocalEdit < USER_IDLE_BEFORE_EXTERNAL_APPLY_MS

\* the texts without the line ends they finish with
RECURSIVE DropTrailingLineEnds(_)
DropTrailingLineEnds(s) ==
  IF s # <<>> /\ s[Len(s)] \in {LF, CR}
    THEN DropTrailingLineEnds(SubSeq(s, 1, Len(s) - 1))
    ELSE s

\* the fast path comparing the texts without their trailing line ends
SameAsCachedTrimmed(fullContent) ==
  LET normalizedContent == DropTrailingLineEnds(normalizeMarkdownForCompare(fullContent))
      normalizedCached == DropTrailingLineEnds(normalizeMarkdownForCompare(lastKnownMarkdown))
  IN Len(normalizedContent) = Len(normalizedCached) /\ normalizedContent = normalizedCached

\* applyPendingUpdate: the fast path that skips content equal to the cache
SameAsCached(fullContent) ==
  LET normalizedContent == normalizeMarkdownForCompare(fullContent)
      normalizedCached == normalizeMarkdownForCompare(lastKnownMarkdown)
  IN Len(normalizedContent) = Len(normalizedCached) /\ normalizedContent = normalizedCached

\* the selection put back where it was, whatever the new document
clampedAnchorKept(oldAnchor, docLength) == oldAnchor

\* applyPendingUpdate: the restored selection, clamped to the new document
clampedAnchor(oldAnchor, docLength) == Min({Max({1, oldAnchor}), docLength - 1})

\* the apply step leaving the cache as it was
CacheAfterReplaceStale(fullContent) == lastKnownMarkdown

\* applyPendingUpdate: the cache after a successful replaceAll
CacheAfterReplace(fullContent) == fullContent

\* replaceAll(safeEditorContent)(ctx) as the listener plug-in sees it: a
\* transaction that changes the document makes it call markdownUpdated, either
\* within the transaction (isUpdatingFromExtension is set: the call is ignored)
\* or in a later task of the event loop
replaceAll(prevMarkdown, markdown) ==
  IF markdown = prevMarkdown
    THEN UNCHANGED listenerPending
    ELSE \E later \in BOOLEAN :
           listenerPending' = IF later
                                THEN [markdown |-> markdown, prevMarkdown |-> prevMarkdown]
                                ELSE listenerPending

\* reinitializeEditor creating the editor again without touching the cache
reinitializeEditorStaleCache(content) ==
  /\ mounted' = FALSE
  /\ applyFrontmatterStateFromContent(content)
  /\ UNCHANGED lastKnownMarkdown
  /\ creating' = Append(creating, safeEditorContent(content))
  /\ UNCHANGED <<editorMarkdown, anchor>>
  /\ lastStep' = "reinitializeEditor"

\* reinitializeEditor, up to the await of Editor.make()...create()
reinitializeEditor(content) ==
  /\ mounted' = FALSE
  /\ applyFrontmatterStateFromContent(content)
  /\ lastKnownMarkdown' = content
  /\ creating' = Append(creating, safeEditorContent(content))
  /\ UNCHANGED <<editorMarkdown, anchor>>
  /\ lastStep' = "reinitializeEditor"

\* the apply step without the inner try around the restoring of the selection:
\* a restore that throws ends in the fallback
CommitUpdateRestoreFatal(fullContent) ==
  /\ pendingUpdate' = NULL
  /\ lastUpdate' = [lastUpdate EXCEPT !.commits = @ + 1]
  /\ \E replaceAllThrows \in BOOLEAN, restoreThrows \in BOOLEAN :
       /\ IF SameAsCached(fullContent)
            THEN /\ ~replaceAllThrows /\ ~restoreThrows
                 /\ lastStep' = "skip"
                 /\ UNCHANGED <<currentFrontmatter, currentFrontmatterRawBlock,
                                lastKnownMarkdown, editorMarkdown, anchor, mounted,
                                creating, listenerPending, loadedDoc, loadedBody>>
            ELSE /\ loadedDoc' = fullContent
                 /\ loadedBody' = safeEditorContent(fullContent)
                 /\ IF ~replaceAllThrows /\ ~restoreThrows
                      THEN /\ applyFrontmatterStateFromContent(fullContent)
                           /\ editorMarkdown' = Serialized(safeEditorContent(fullContent))
                           /\ lastKnownMarkdown' = CacheAfterReplace(fullContent)
                           /\ anchor' =
                                IF restoreThrows
                                  THEN DocSize(editorMarkdown')
                                  ELSE clampedAnchor(anchor, DocSize(editorMarkdown'))
                           /\ replaceAll(editorMarkdown, editorMarkdown')
                           /\ lastStep' = "apply"
                           /\ UNCHANGED <<mounted, creating>>
                      ELSE /\ ~(replaceAllThrows /\ restoreThrows)
                           /\ Len(creating) < MaxCreating
                           /\ reinitializeEditor(fullContent)
                           /\ UNCHANGED listenerPending
       /\ lastCommit' = [content |-> fullContent, edited |-> FALSE,
                          repeat |-> (lastCommit.content = fullContent /\ ~lastCommit.edited),
                          step |-> lastStep', before |-> lastCommit.step,
                          restoreThrew |-> restoreThrows]

\* applyPendingUpdate, from "const fullContent = pendingUpdate" on
CommitUpdate(fullContent) ==
  /\ pendingUpdate' = NULL
  /\ lastUpdate' = [lastUpdate EXCEPT !.commits = @ + 1]
  /\ \E replaceAllThrows \in BOOLEAN, restoreThrows \in BOOLEAN :
       /\ IF SameAsCached(fullContent)
            THEN /\ ~replaceAllThrows /\ ~restoreThrows
                 /\ lastStep' = "skip"
                 /\ UNCHANGED <<currentFrontmatter, currentFrontmatterRawBlock,
                                lastKnownMarkdown, editorMarkdown, anchor, mounted,
                                creating, listenerPending, loadedDoc, loadedBody>>
            ELSE /\ loadedDoc' = fullContent
                 /\ loadedBody' = safeEditorContent(fullContent)
                 /\ IF ~replaceAllThrows
                      THEN /\ applyFrontmatterStateFromContent(fullContent)
                           /\ editorMarkdown' = Serialized(safeEditorContent(fullContent))
                           /\ lastKnownMarkdown' = CacheAfterReplace(fullContent)
                           /\ anchor' =
                                IF restoreThrows
                                  THEN DocSize(editorMarkdown')
                                  ELSE clampedAnchor(anchor, DocSize(editorMarkdown'))
                           /\ replaceAll(editorMarkdown, editorMarkdown')
                           /\ lastStep' = "apply"
                           /\ UNCHANGED <<mounted, creating>>
                      ELSE /\ ~restoreThrows
                           /\ Len(creating) < MaxCreating
                           /\ reinitializeEditor(fullContent)
                           /\ UNCHANGED listenerPending
       /\ lastCommit' = [content |-> fullContent, edited |-> FALSE,
                          repeat |-> (lastCommit.content = fullContent /\ ~lastCommit.edited),
                          step |-> lastStep', before |-> lastCommit.step,
                          restoreThrew |-> restoreThrows]

\* the flag left set when the apply step ended in the fallback
flagAfterApplyFallbackKeeps(step) == step = "reinitializeEditor"

\* isUpdatingFromExtension = false after the try / catch of applyPendingUpdate,
\* whichever way the step (an "apply" or the fallback) went
flagAfterApply(step) == FALSE

\* applyPendingUpdate, run by the timer t; the paths that return before
\* "isUpdatingFromExtension = true" leave the flag alone
applyPendingUpdate(t) ==
  /\ t.fn = "applyPendingUpdate"
  /\ IF editor = "null" \/ pendingUpdate = NULL
       THEN /\ timers' = timers \ {t}
            /\ lastStep' = "nothingToApply"
            /\ UNCHANGED <<pendingUpdate, updateDebounceTimer, currentFrontmatter,
                           currentFrontmatterRawBlock, lastKnownMarkdown, editorMarkdown,
                           anchor, mounted, creating, listenerPending, loadedDoc, loadedBody,
                           lastUpdate, lastCommit>>
       ELSE LET msSinceLocalEdit == now - lastLocalEditAt IN
            IF UserIsTyping(msSinceLocalEdit)
              THEN LET cleared == clearTimeout(timers \ {t}, updateDebounceTimer)
                       id == FreshId(cleared, {outgoingEditTimer})
                   IN /\ updateDebounceTimer' = id
                      /\ timers' = setTimeout(cleared, id, "applyPendingUpdate",
                                              RemainingIdle(msSinceLocalEdit))
                      /\ lastStep' = "defer"
                      /\ lastUpdate' = [lastUpdate EXCEPT !.deferred = TRUE]
                      /\ UNCHANGED <<pendingUpdate, currentFrontmatter,
                                     currentFrontmatterRawBlock, lastKnownMarkdown,
                                     editorMarkdown, anchor, mounted, creating,
                                     listenerPending, loadedDoc, loadedBody, lastCommit>>
              ELSE /\ timers' = timers \ {t}
                   /\ CommitUpdate(pendingUpdate)
                   /\ UNCHANGED updateDebounceTimer
  /\ isUpdatingFromExtension' =
       IF lastStep' \in {"apply", "reinitializeEditor"}
         THEN flagAfterApply(lastStep')
         ELSE isUpdatingFromExtension
  /\ UNCHANGED <<codecVars, hostVars, shellVars, editor, currentVersion, lastLocalEditAt, pendingOutgoingEdit,
                 outgoingEditTimer, now, posted, hostText, lastEdit, lastInputAt, inputs>>

\* A timer that is due runs its callback
TimerFires ==
  \E t \in timers :
    /\ t.due <= now
    /\ OutgoingTimerFires(t) \/ applyPendingUpdate(t)

-----------------------------------------------------------------------------
(* Time and transport *)

\* Time passes, once due timers have run and posted messages are delivered:
\* by one of Delays, or up to the next timer that is due when that is sooner
\* or when the time for inputs is over
Advance ==
  /\ \A t \in timers : t.due > now
  /\ posted = <<>>
  /\ \E d \in Delays :
       LET target == now + d
           next == IF timers = {} THEN target ELSE Min({ t.due : t \in timers })
       IN /\ target <= MaxTime \/ timers # {}
          /\ now' = IF next < target \/ target > MaxTime THEN next ELSE target
  /\ lastStep' = "advance"
  /\ UNCHANGED <<codecVars, hostVars, shellVars, stateVars, editorMarkdown, anchor, mounted, creating, timers,
                 posted, listenerPending, hostText, loadedDoc, loadedBody, lastEdit,
                 lastUpdate, lastCommit, lastInputAt, inputs>>

\* The host takes the oldest message the webview posted
HostTakes ==
  /\ posted # <<>>
  /\ posted' = Tail(posted)
  /\ hostText' = IF posted[1].type = "edit" THEN posted[1].content ELSE hostText
  /\ lastStep' = "hostTakes"
  /\ UNCHANGED <<codecVars, hostVars, shellVars, stateVars, editorMarkdown, anchor, mounted, creating, now,
                 timers, listenerPending, loadedDoc, loadedBody, lastEdit, lastUpdate,
                 lastCommit, lastInputAt, inputs>>

Next ==
  \/ ReceiveUpdate
  \/ EditorCreated
  \/ UserEdit
  \/ KeyDown
  \/ ListenerFires
  \/ TimerFires
  \/ Advance
  \/ HostTakes

Spec == Init /\ [][Next]_vars

\* Timers that are due fire, posted messages are delivered, editor creations
\* complete, and time passes
LiveSpec ==
  Spec /\ WF_vars(TimerFires) /\ WF_vars(HostTakes) /\ WF_vars(EditorCreated)
       /\ WF_vars(Advance)

-----------------------------------------------------------------------------
(* The codec run on its own: extract a document, then combine the parts *)

CodecInit == codecInput \in Docs /\ SessionInit /\ CursorAtRest

CodecExtract ==
  /\ codecResult = NoResult
  /\ codecResult' = extractFrontmatter(codecInput)
  /\ UNCHANGED <<codecInput, codecCombined, codecBody, codecOutgoing>>
  /\ UNCHANGED <<stateVars, envVars, histVars, hostVars, shellVars>>

CodecCombine ==
  /\ codecResult # NoResult
  /\ codecCombined = NotRun
  /\ codecCombined' = combineFrontmatter(codecResult.rawBlock, codecResult.content)
  /\ UNCHANGED <<codecInput, codecResult, codecBody, codecOutgoing>>
  /\ UNCHANGED <<stateVars, envVars, histVars, hostVars, shellVars>>

\* The content of the extraction is made safe for the rich editor, as
\* initializeEditor, applyPendingUpdate and reinitializeEditor do
CodecSafeBody ==
  /\ codecCombined # NotRun
  /\ codecBody = NotRun
  /\ codecBody' = ensureNoFrontmatterInEditorContent(codecResult.content)
  /\ UNCHANGED <<codecInput, codecResult, codecCombined, codecOutgoing>>
  /\ UNCHANGED <<stateVars, envVars, histVars, hostVars, shellVars>>

\* The document taken as markdown coming out of the rich editor: the listener
\* sanitises it before combining
CodecSanitize ==
  /\ codecBody # NotRun
  /\ codecOutgoing = NotRun
  /\ codecOutgoing' = sanitizeOutgoingMarkdown(codecInput)
  /\ UNCHANGED <<codecInput, codecResult, codecCombined, codecBody>>
  /\ UNCHANGED <<stateVars, envVars, histVars, hostVars, shellVars>>

CodecNext == CodecExtract \/ CodecCombine \/ CodecSafeBody \/ CodecSanitize

CodecSpec == CodecInit /\ [][CodecNext]_vars


-----------------------------------------------------------------------------
(* The extension host's handlers *)

\* What a handler run starts from: the document, the cache, the last message
\* posted to each view, and no view posted to yet
Run(text, version) ==
  [text |-> text, version |-> version, cache |-> lastSentContent,
   delivered |-> delivered, posted |-> {}]

\* updateWebview posting whatever the cache holds
updateWebviewAlwaysPosts(acc, v) ==
  [acc EXCEPT !.cache = acc.text,
              !.delivered[v] = [content |-> acc.text, version |-> acc.version],
              !.posted = acc.posted \cup {v}]

\* updateWebview(webview of view v, document): nothing when the text is the
\* cached one
updateWebview(acc, v) ==
  IF acc.cache = acc.text THEN acc
  ELSE [acc EXCEPT !.cache = acc.text,
                   !.delivered[v] = [content |-> acc.text, version |-> acc.version],
                   !.posted = acc.posted \cup {v}]

\* One onDidChangeTextDocument listener, the one view v registered
changeListener(acc, v) ==
  IF syncManagers # NoManager /\ ~isInternalChange[syncManagers]
    THEN updateWebview(acc, v)
    ELSE acc

\* The change event calls the listeners from the i-th on, in the order they
\* were registered
RECURSIVE fireChange(_, _)
fireChange(acc, i) ==
  IF i > Len(listeners) THEN acc
  ELSE fireChange(changeListener(acc, listeners[i]), i + 1)

\* The document's text becomes text and the change event is fired
changeDocument(text, op, view, late) ==
  /\ docText' = text
  /\ docVersion' = docVersion + 1
  /\ LET acc == fireChange(Run(text, docVersion + 1), 1)
     IN /\ lastSentContent' = acc.cache
        /\ delivered' = acc.delivered
        /\ hostStep' = [op |-> op, view |-> view, late |-> late,
                        closed |-> view # 0 /\ panel[view] = "disposed",
                        posted |-> acc.posted]

Without(s, v) == SelectSeq(s, LAMBDA w : w # v)

\* resolveCustomTextEditor for view v
Resolve(v) ==
  /\ panel[v] = "none"
  /\ panel' = [panel EXCEPT ![v] = "open"]
  /\ isInternalChange' = [isInternalChange EXCEPT ![v] = FALSE]
  /\ syncManagers' = v
  /\ UNCHANGED <<docText, docVersion>>
  /\ LET acc == updateWebview(Run(docText, docVersion), v)
     IN /\ lastSentContent' = acc.cache
        /\ delivered' = acc.delivered
        /\ hostStep' = [op |-> "resolve", view |-> v, late |-> FALSE,
                        closed |-> FALSE, posted |-> acc.posted]
  /\ listeners' = Append(listeners, v)
  /\ UNCHANGED <<handlers, releaseTimers, hostInputs>>
  /\ UNCHANGED <<codecVars, stateVars, envVars, histVars, shellVars>>

\* The onDidDispose callback of view v's panel
Dispose(v) ==
  /\ panel[v] = "open"
  /\ panel' = [panel EXCEPT ![v] = "disposed"]
  /\ listeners' = Without(listeners, v)
  /\ syncManagers' = NoManager
  /\ lastSentContent' = NULL
  /\ hostStep' = [op |-> "dispose", view |-> v, late |-> FALSE, closed |-> FALSE,
                  posted |-> {}]
  /\ UNCHANGED <<docText, docVersion, isInternalChange, handlers, releaseTimers,
                 delivered, hostInputs>>
  /\ UNCHANGED <<codecVars, stateVars, envVars, histVars, shellVars>>

\* a finally block that schedules nothing
scheduleReleaseDropped(manager) == UNCHANGED releaseTimers

\* The finally block of the edit case: the release of the flag is left to a
\* setTimeout(..., 0) callback
scheduleRelease(manager) ==
  releaseTimers' = IF manager # NoManager THEN Append(releaseTimers, manager)
                                          ELSE releaseTimers

\* handleWebviewMessage issuing the replace without comparing the texts
HandleEditAlwaysReplaces(v, content) ==
  /\ hostInputs < MaxHostInputs
  /\ panel[v] # "none"
  /\ hostInputs' = hostInputs + 1
  /\ isInternalChange' = IF syncManagers # NoManager
                           THEN [isInternalChange EXCEPT ![syncManagers] = TRUE]
                           ELSE isInternalChange
  /\ IF FALSE
       THEN /\ lastSentContent' = content
            /\ scheduleRelease(syncManagers)
            /\ hostStep' = [op |-> "same", view |-> v, late |-> panel[v] = "disposed",
                            closed |-> panel[v] = "disposed", posted |-> {}]
            /\ UNCHANGED handlers
       ELSE /\ handlers' = Append(handlers, [view |-> v, manager |-> syncManagers,
                                             content |-> content, version |-> docVersion,
                                             late |-> panel[v] = "disposed",
                                             phase |-> "issued"])
            /\ hostStep' = [op |-> "issue", view |-> v, late |-> panel[v] = "disposed",
                            closed |-> panel[v] = "disposed", posted |-> {}]
            /\ UNCHANGED <<lastSentContent, releaseTimers>>
  /\ UNCHANGED <<docText, docVersion, panel, listeners, syncManagers, delivered>>
  /\ UNCHANGED <<codecVars, stateVars, envVars, histVars, shellVars>>

\* handleWebviewMessage for an edit message of view v, up to the await of
\* applyEdit. The platform decides whether a message of a disposed view is
\* still handed over.
HandleEdit(v, content) ==
  /\ hostInputs < MaxHostInputs
  /\ panel[v] # "none"
  /\ hostInputs' = hostInputs + 1
  /\ isInternalChange' = IF syncManagers # NoManager
                           THEN [isInternalChange EXCEPT ![syncManagers] = TRUE]
                           ELSE isInternalChange
  /\ IF docText = content
       THEN /\ lastSentContent' = content
            /\ scheduleRelease(syncManagers)
            /\ hostStep' = [op |-> "same", view |-> v, late |-> panel[v] = "disposed",
                            closed |-> panel[v] = "disposed", posted |-> {}]
            /\ UNCHANGED handlers
       ELSE /\ handlers' = Append(handlers, [view |-> v, manager |-> syncManagers,
                                             content |-> content, version |-> docVersion,
                                             late |-> panel[v] = "disposed",
                                             phase |-> "issued"])
            /\ hostStep' = [op |-> "issue", view |-> v, late |-> panel[v] = "disposed",
                            closed |-> panel[v] = "disposed", posted |-> {}]
            /\ UNCHANGED <<lastSentContent, releaseTimers>>
  /\ UNCHANGED <<docText, docVersion, panel, listeners, syncManagers, delivered>>
  /\ UNCHANGED <<codecVars, stateVars, envVars, histVars, shellVars>>

\* The oldest replace not applied yet
NextIssued == CHOOSE i \in 1..Len(handlers) :
                /\ handlers[i].phase = "issued"
                /\ \A j \in 1..(i - 1) : handlers[j].phase # "issued"

\* The platform applies the replace of applyEdit and fires the change event; it
\* may refuse an edit made for a version the document has left, and may fire no
\* event for a replace that leaves the text as it is
ApplyEdit ==
  /\ \E i \in 1..Len(handlers) : handlers[i].phase = "issued"
  /\ LET i == NextIssued
         h == handlers[i]
     IN /\ handlers' = [handlers EXCEPT ![i].phase = "applied"]
        /\ \E refused \in (IF h.version # docVersion \/ h.content = docText
                             THEN BOOLEAN ELSE {FALSE}) :
             IF refused
               THEN /\ hostStep' = [op |-> "refuse", view |-> h.view, late |-> h.late,
                                    closed |-> panel[h.view] = "disposed",
                                    posted |-> {}]
                    /\ UNCHANGED <<docText, docVersion, lastSentContent, delivered>>
               ELSE changeDocument(h.content,
                                   IF h.version = docVersion THEN "apply"
                                                             ELSE "applyStale",
                                   h.view, h.late)
  /\ UNCHANGED <<panel, listeners, syncManagers, isInternalChange, releaseTimers,
                 hostInputs>>
  /\ UNCHANGED <<codecVars, stateVars, envVars, histVars, shellVars>>

\* handleWebviewMessage after the await: the cache is set and the finally block
\* runs
ResumeEdit ==
  /\ handlers # <<>>
  /\ handlers[1].phase = "applied"
  /\ lastSentContent' = handlers[1].content
  /\ scheduleRelease(handlers[1].manager)
  /\ handlers' = Tail(handlers)
  /\ hostStep' = [op |-> "resume", view |-> handlers[1].view, late |-> handlers[1].late,
                  closed |-> panel[handlers[1].view] = "disposed", posted |-> {}]
  /\ UNCHANGED <<docText, docVersion, panel, listeners, syncManagers, isInternalChange,
                 delivered, hostInputs>>
  /\ UNCHANGED <<codecVars, stateVars, envVars, histVars, shellVars>>

\* The setTimeout(..., 0) callback of the finally block
ReleaseTick ==
  /\ releaseTimers # <<>>
  /\ isInternalChange' = [isInternalChange EXCEPT ![releaseTimers[1]] = FALSE]
  /\ releaseTimers' = Tail(releaseTimers)
  /\ hostStep' = [op |-> "release", view |-> releaseTimers[1], late |-> FALSE,
                  closed |-> panel[releaseTimers[1]] = "disposed", posted |-> {}]
  /\ UNCHANGED <<docText, docVersion, panel, listeners, syncManagers, lastSentContent,
                 handlers, delivered, hostInputs>>
  /\ UNCHANGED <<codecVars, stateVars, envVars, histVars, shellVars>>

\* Something other than the controller changes the document: another editor,
\* an undo, a reload from disk
ExternalChange(text) ==
  /\ hostInputs < MaxHostInputs
  /\ text # docText
  /\ hostInputs' = hostInputs + 1
  /\ changeDocument(text, "external", 0, FALSE)
  /\ UNCHANGED <<panel, listeners, syncManagers, isInternalChange, handlers,
                 releaseTimers>>
  /\ UNCHANGED <<codecVars, stateVars, envVars, histVars, shellVars>>

HostNext ==
  \/ \E v \in Views : Resolve(v)
  \/ \E v \in Views : Dispose(v)
  \/ \E v \in Views, content \in HostTexts : HandleEdit(v, content)
  \/ ApplyEdit
  \/ ResumeEdit
  \/ ReleaseTick
  \/ \E text \in HostTexts \cup {DocAtOpen} : ExternalChange(text)

HostSpec == Init /\ [][HostNext]_vars

\* Replaces are applied, handlers resume after their await, and timer callbacks
\* run
HostLiveSpec ==
  HostSpec /\ WF_vars(ApplyEdit) /\ WF_vars(ResumeEdit) /\ WF_vars(ReleaseTick)

\* The quick-insert menu, and the tabs of the active group, each on its own
MenuSpec == Init /\ [][MenuNext]_vars

TabSpec == Init /\ [][TabNext]_vars

\* The restoring of the selection for every saved anchor and every size of the
\* new document
CursorInit ==
  /\ codecInput = <<>>
  /\ SessionInit
  /\ cursorAnchor \in 0..MaxAnchor
  /\ cursorDocLength \in MinDocLength..MaxDocLength
  /\ cursorRestored = 0
  /\ cursorDone = FALSE

\* applyPendingUpdate: const clampedAnchor = ...; TextSelection.create(doc, clampedAnchor)
RestoreSelection ==
  /\ cursorDone = FALSE
  /\ cursorDone' = TRUE
  /\ cursorRestored' = clampedAnchor(cursorAnchor, cursorDocLength)
  /\ UNCHANGED <<cursorAnchor, cursorDocLength>>
  /\ UNCHANGED <<codecVars, stateVars, envVars, histVars, hostVars, menuVars, tabVars>>

CursorSpec == CursorInit /\ [][RestoreSelection]_vars

-----------------------------------------------------------------------------
(* Properties *)

Has(s, c) == \E i \in 1..Len(s) : s[i] = c

\* C1: for every document d, combineFrontmatter(extractFrontmatter(d).rawBlock,
\* extractFrontmatter(d).content) is d, character for character.
C1_RoundTrip == codecCombined # NotRun => codecCombined = codecInput

\* C1 happens: a block with CRLF line ends and blanks after a fence was
\* extracted and combined again
C1_Witness ==
  /\ codecCombined # NotRun
  /\ codecResult.rawBlock # NULL
  /\ Has(codecResult.rawBlock, CR) /\ Has(codecResult.rawBlock, TAB)
  /\ codecResult.content # <<>>

\* C2: right after a Document is handed to the rich editor by initializeEditor,
\* applyPendingUpdate or reinitializeEditor, the stored raw block followed by
\* the Body handed over is that Document (the Body alone when there is no block).
C2_LoadKeepsDocument ==
  lastStep \in {"initializeEditor", "apply", "reinitializeEditor"} =>
    IF currentFrontmatterRawBlock = NULL
      THEN loadedBody = loadedDoc
      ELSE currentFrontmatterRawBlock \o loadedBody = loadedDoc

\* The raw block of the Document last handed to the rich editor
LoadedRawBlock == RegexMatch(loadedDoc).whole

\* C3: every edit the session builds or posts is the raw block of the last
\* loaded Document, unchanged, followed by what the rich editor gave; it is
\* the editor's text alone when that Document had no block.
C3_EditKeepsPreamble ==
  LET bodies == { sanitizeOutgoingMarkdown(m) :
                    m \in EditorOutputs \cup { Serialized(EditorContent[d]) : d \in UpdateDocs } }
      expected == IF loadedDoc # NULL /\ extractFrontmatter(loadedDoc).rawBlock # NULL
                    THEN { LoadedRawBlock \o b : b \in bodies }
                    ELSE bodies
  IN /\ pendingOutgoingEdit # NULL => pendingOutgoingEdit \in expected
     /\ lastStep = "postEdit" => posted[Len(posted)].content \in expected

\* C3 happens: an edit was posted for a Document whose block has CRLF line ends
C3_Witness ==
  /\ lastStep = "postEdit"
  /\ currentFrontmatterRawBlock # NULL
  /\ Has(currentFrontmatterRawBlock, CR)
  /\ StartsWith(posted[Len(posted)].content, BlockCRLF)

\* C4: when the interior of a leading fenced block fails to parse, or parses to
\* anything but a key-value mapping (nothing, a scalar, a list),
\* extractFrontmatter returns null, null and the whole document.
C4_MalformedIsNoPreamble ==
  (/\ codecResult # NoResult
   /\ RegexMatch(codecInput).ok
   /\ yamlLoad(RegexMatch(codecInput).group) # "mapping")
  => codecResult = Extraction(NULL, NULL, codecInput)

\* The first line of d is the fence, followed by blanks only
StartFenceOnOwnLine(d) ==
  /\ StartsWith(d, Fence)
  /\ RTrim(SplitLines(d)[1]) = Fence
  /\ Len(SplitLines(d)) > 1

\* The block r at the front of d ends with a line that is the fence followed by
\* blanks only: the line ends inside r, or d ends or has a line end right after r
EndFenceOnOwnLine(r, d) ==
  LET lines == SplitLines(r)
      last == IF lines[Len(lines)] = <<>> THEN lines[Len(lines) - 1] ELSE lines[Len(lines)]
  IN /\ Len(lines) >= 2
     /\ RTrim(last) = Fence
     /\ \/ r[Len(r)] = LF
        \/ Len(r) = Len(d)
        \/ d[Len(r) + 1] \in {CR, LF}

\* C5: a preamble is recognised only when the document starts with the start
\* fence on its own line and has a later end fence on its own line; rawBlock is
\* the text from offset 0 through the end fence and at most one line end,
\* content is the rest; with no leading fence rawBlock is null and content is
\* the document.
C5_RecognisedOnlyBetweenFenceLines ==
  codecResult # NoResult =>
    IF codecResult.rawBlock # NULL
      THEN /\ StartFenceOnOwnLine(codecInput)
           /\ StartsWith(codecInput, codecResult.rawBlock)
           /\ EndFenceOnOwnLine(codecResult.rawBlock, codecInput)
           /\ codecResult.content = Slice(codecInput, Len(codecResult.rawBlock))
      ELSE codecResult.content = codecInput

CommitSteps == {"skip", "apply", "reinitializeEditor"}

\* C6: no edit message is posted less than 16 ms after the last edit; at most
\* one message is posted after it; the message carries the combined document of
\* that last edit and empties the pending slot; a pending edit is posted in the end.
C6_OutgoingCoalesced ==
  /\ [](lastEdit.sends <= 1)
  /\ [](lastStep = "postEdit" =>
          /\ posted[Len(posted)] = [type |-> "edit", content |-> lastEdit.content]
          /\ pendingOutgoingEdit = NULL
          /\ now - lastEdit.at >= OUTGOING_EDIT_DEBOUNCE_MS)
  /\ (pendingOutgoingEdit # NULL) ~> (lastStep = "postEdit")

\* C6 happens: one message was posted for a burst of two or more edits
C6_Witness == lastStep = "postEdit" /\ lastEdit.n >= 2 /\ lastEdit.sends = 1

\* C7: in Ready no commit runs less than 30 ms after the last update message;
\* at most one commit runs after it; the commit takes the content of that last
\* update and empties the pending slot; a pending update is committed in the end.
C7_InboundCoalesced ==
  /\ [](lastUpdate.commits <= 1)
  /\ [](lastStep \in CommitSteps =>
          /\ lastCommit.content = lastUpdate.content
          /\ pendingUpdate = NULL
          /\ now - lastUpdate.at >= UPDATE_DEBOUNCE_MS)
  /\ (pendingUpdate # NULL) ~> (lastStep \in CommitSteps /\ lastUpdate.commits = 1)

\* C7 happens: one commit ran for two or more coalesced updates
C7_Witness == lastStep \in CommitSteps /\ lastUpdate.n >= 2 /\ lastUpdate.commits = 1

\* The armed timers that run applyPendingUpdate
InboundTimers == { t \in timers : t.fn = "applyPendingUpdate" }

\* C8: the rich-editor content is replaced only when 150 ms or more have
\* passed since the last keystroke or edit, and a deferral arms the one inbound
\* timer for the last keystroke's time plus 150 ms.
C8_TypingPriority ==
  /\ lastStep \in {"apply", "reinitializeEditor"} =>
       now - lastInputAt >= USER_IDLE_BEFORE_EXTERNAL_APPLY_MS
  /\ lastStep = "defer" =>
       /\ now - lastInputAt < USER_IDLE_BEFORE_EXTERNAL_APPLY_MS
       /\ InboundTimers =
            { [id |-> updateDebounceTimer, fn |-> "applyPendingUpdate",
               due |-> lastInputAt + USER_IDLE_BEFORE_EXTERNAL_APPLY_MS] }

\* C8 happens: the user typed, the update was deferred, and the content was
\* replaced 150 ms after the last keystroke
C8_Witness ==
  /\ lastStep = "apply"
  /\ lastInputAt > Epoch
  /\ now = lastInputAt + USER_IDLE_BEFORE_EXTERNAL_APPLY_MS

\* C9: a deferred update stays in the pending slot with a timer armed for it,
\* and is committed in the end, leaving the slot empty.
C9_DeferredIsApplied ==
  /\ [](lastStep = "defer" => pendingUpdate # NULL /\ InboundTimers # {})
  /\ (lastStep = "defer") ~> (lastStep \in CommitSteps /\ pendingUpdate = NULL)

\* C9 happens: an update that was deferred has been committed
C9_Witness ==
  /\ lastStep \in {"apply", "reinitializeEditor"}
  /\ lastUpdate.deferred
  /\ lastUpdate.n >= 2
  /\ pendingUpdate = NULL

C11_NoEchoFromApply ==
  /\ pendingOutgoingEdit # NULL => lastEdit.cause = "user"
  /\ lastStep = "postEdit" => lastEdit.cause = "user"

\* Nothing is under way: an editor is mounted, no timer is armed, no message or
\* listener call is in flight, both pending slots are empty
Settled ==
  /\ editor # "null" /\ mounted
  /\ creating = <<>>
  /\ timers = {}
  /\ posted = <<>>
  /\ listenerPending = NoCall
  /\ pendingUpdate = NULL
  /\ pendingOutgoingEdit = NULL
  /\ hostText # NULL

\* C14: whenever the system is settled, the text of the host's document is
\* the stored raw block followed by the rich editor's Body, up to line ends.
C14_SettledConverged ==
  Settled =>
    normalizeMarkdownForCompare(hostText) =
      normalizeMarkdownForCompare(combineFrontmatter(currentFrontmatterRawBlock, editorMarkdown))

\* The editor holds the Body of the Document d, with d's raw block stored and d
\* in the cache
HoldsDocument(d) ==
  /\ editor # "null" /\ mounted
  /\ editorMarkdown = Serialized(EditorContent[d])
  /\ currentFrontmatterRawBlock = Extracted[d].rawBlock
  /\ lastKnownMarkdown = d

\* C20: when replaceAll throws in the apply step, applyPendingUpdate still
\* returns with the slot empty and the flag clear, having stored the raw block
\* of the new Document and put the Document in the cache; and the editor is
\* created again, so that in the end it holds the new Body (unless a later
\* commit or edit has taken over by then).
C20_ReplaceFailureRecovered ==
  /\ [](lastStep = "reinitializeEditor" =>
          /\ pendingUpdate = NULL
          /\ ~isUpdatingFromExtension
          /\ ~mounted
          /\ currentFrontmatterRawBlock = Extracted[lastCommit.content].rawBlock
          /\ lastKnownMarkdown = lastCommit.content)
  /\ \A d \in UpdateDocs :
       (lastStep = "reinitializeEditor" /\ lastCommit.content = d)
         ~> \/ HoldsDocument(d)
            \/ lastCommit.content # d
            \/ lastCommit.step # "reinitializeEditor"
            \/ lastCommit.edited

\* C20 happens: replaceAll threw for a Document with a raw block, and the
\* editor created again holds its Body
C20_Witness ==
  /\ lastStep = "created"
  /\ creating = <<>>
  /\ lastCommit.step = "reinitializeEditor"
  /\ ~lastCommit.edited
  /\ HoldsDocument(lastCommit.content)
  /\ currentFrontmatterRawBlock # NULL

\* C12: with one view open, the change event fired by the controller's own
\* replace (issued for the version the document still has) never posts an
\* update message back to the view whose edit message caused the replace,
\* whatever the interleaving of edit messages.
C12_NoEchoFromReplace ==
  (hostStep.op = "apply" /\ \A v \in Views \ {hostStep.view} : panel[v] = "none")
    => hostStep.view \notin hostStep.posted

\* C13: from the moment an edit message's replace is issued until it has been
\* applied, the isInternalChange flag of the message's manager is set (said of
\* replaces issued for the version the document still has).
C13_FlagCoversReplace ==
  \A i \in 1..Len(handlers) :
    (/\ handlers[i].phase = "issued"
     /\ handlers[i].version = docVersion
     /\ handlers[i].manager # NoManager)
      => isInternalChange[handlers[i].manager]

\* C15: a foreign change of the document, made while view 1 is open, is
\* followed by an update message carrying the current text (after which the
\* cache holds that text), unless the text is the cached one, the view closes
\* or an edit takes over; also when the change arrives while isInternalChange
\* is set.
C15_ExternalChangeReachesView ==
  (hostStep.op = "external" /\ panel[1] = "open" /\ panel[2] = "none")
    ~> \/ lastSentContent = docText
       \/ panel[1] # "open"
       \/ panel[2] # "none"

\* C16: once a view's panel is disposed, no release timer armed for the manager
\* of that view is outstanding.
C16_NoTimerAfterDispose ==
  \A i \in 1..Len(releaseTimers) : panel[releaseTimers[i]] # "disposed"

\* C17: when no view is open, the last handler to finish was handling a message
\* that arrived before its view was disposed, and no handler is in flight, the
\* document has no syncManagers entry and no lastSentContent entry.
C17_DisposeDropsCache ==
  (/\ \A v \in Views : panel[v] # "open"
   /\ hostStep.op = "resume" /\ ~hostStep.late
   /\ handlers = <<>>)
    => syncManagers = NoManager /\ lastSentContent = NULL

\* C18: the handling of an edit message does nothing once the view is disposed;
\* in particular a handler that was awaiting its replace when the view was
\* disposed writes no cache entry when it resumes.
C18_LateEditDropped ==
  (hostStep.closed /\ ~hostStep.late) => hostStep.op # "resume"

\* C19: with no edit message handled so far, a foreign change of the document
\* posts the new text to every open view (each view has a cache of its own, and
\* the disposal of another view does not take its manager away).
C19_SurvivorKeepsUpdates ==
  (hostStep.op = "external" /\ handlers = <<>> /\ releaseTimers = <<>>
     /\ \A v \in Views : ~isInternalChange[v])
    => \A v \in Views : panel[v] = "open" => delivered[v].content = docText

\* extractFrontmatter would take a preamble off the start of the text
Recognised(text) ==
  LET e == extractFrontmatter(text)
  IN e.rawBlock # NULL /\ e.rawBlock # <<>>

\* C21: the text made safe for the rich editor never begins with a block
\* extractFrontmatter recognises, and neither does the sanitised rich-editor
\* output, for every document, documents with several stacked blocks included.
C21_SafetyNet ==
  /\ codecBody # NotRun => ~Recognised(codecBody)
  /\ codecOutgoing # NotRun => ~Recognised(codecOutgoing)

\* The text before the cursor ends in "//" and an alphanumeric query, the "//"
\* standing at the start of the block or after whitespace
DoubleSlashTrigger(text) ==
  \E i \in 1..(Len(text) - 1) :
    /\ text[i] = SLASH /\ text[i + 1] = SLASH
    /\ i = 1 \/ IsWhite(text[i - 1])
    /\ \A j \in (i + 2)..Len(text) : IsAlnum(text[j])

\* C22: once the pending checks have run, the quick-insert menu is open exactly
\* when the text before the cursor is "//" at the start of the block or after
\* whitespace, followed by an optional alphanumeric query.
C22_MenuOpensOnDoubleSlash ==
  slashChecks = 0 => (slashMenuVisible <=> DoubleSlashTrigger(textInBlock))

\* A tab showing a .md file in one of the two views
MarkdownView(tab) == tab.kind \in {"text", "custom"} /\ EndsWithMd(tab.uri)

\* What C23 says of the toggle commands run in a row, for the tabs in `scope`
ToggleSwitches(scope) ==
  /\ \A i \in 1..Len(toggled) :
       LET t == toggled[i]
       IN /\ (t.before.kind = "custom" /\ EndsWithMd(t.before.uri))
               => t.opened = DefaultEditor
          /\ (t.before.kind = "text" /\ EndsWithMd(t.before.uri))
               => t.opened = ViewType
          /\ (t.before = NoTab \/ ~EndsWithMd(t.before.uri)) => t.opened = "none"
  /\ (/\ Len(toggled) = 2
      /\ ~tabEvents
      /\ MarkdownView(toggled[1].before)
      /\ toggled[1].before \in scope)
       => /\ activeTab.kind = toggled[1].before.kind
          /\ activeTab.uri = toggled[1].before.uri

C24_OneFullReplacePerEdit ==
  [][/\ hostStep'.op = "issue"
          => /\ Len(handlers') = Len(handlers) + 1
             /\ handlers'[Len(handlers')].content # docText
             /\ handlers'[Len(handlers')].phase = "issued"
             /\ docText' = docText
     /\ hostStep'.op = "same"
          => /\ handlers' = handlers
             /\ docText' = docText
             /\ lastSentContent' = docText
     /\ Len(handlers') > Len(handlers) => hostStep'.op = "issue"
     /\ docText' # docText
          => \/ hostStep'.op = "external"
             \/ /\ hostStep'.op \in {"apply", "applyStale"}
                /\ \E i \in 1..Len(handlers) :
                     /\ handlers[i].phase = "issued"
                     /\ handlers'[i].phase = "applied"
                     /\ docText' = handlers[i].content
                     /\ \A j \in 1..Len(handlers) : j # i => handlers'[j] = handlers[j]
    ]_vars

\* C24 happens: an edit message's replace has changed the document, and the
\* next edit message, carrying the document's text, issued none
C24_Witness ==
  /\ hostStep.op = "same"
  /\ docText \in HostTexts
  /\ handlers # <<>> /\ handlers[1].phase = "applied" /\ handlers[1].content = docText

\* C25: as long as no commit has run (so the editor was never re-initialised),
\* the rich-editor instances created or being created for the view are at most
\* one, whenever the update messages arrive.
C25_InitialisedOnce ==
  lastCommit.step = "none"
    => Len(creating) + (IF editor # "null" THEN 1 ELSE 0) <= 1

\* C26: a view opened while no other view is open is posted an initial update
\* message with the document's text; said here of a view opened right after
\* the handler of an edit message, received before the earlier view was
\* closed, has finished.
C26_InitialUpdatePosted ==
  [][(/\ hostStep'.op = "resolve"
      /\ hostStep.op = "resume" /\ ~hostStep.late
      /\ \A w \in Views : panel[w] # "open")
       => /\ hostStep'.view \in hostStep'.posted
          /\ delivered'[hostStep'.view].content = docText
    ]_vars

\* C27: an update message never carries the content it carried the last time
\* one was posted to the same view; said here of the only view ever opened.
C27_NoRepeatedUpdate ==
  [][\A v \in hostStep'.posted :
        (\A w \in Views \ {v} : panel[w] = "none")
          => delivered[v] = NoUpdate \/ delivered'[v].content # delivered[v].content
    ]_vars

\* C27, amended: an update message never carries the content the cache holds
\* when it is posted; posting sets the cache to the posted content, and the
\* end of an edit message's handling sets it to the edit's content.
C27_NeverPostsCachedContent ==
  [][/\ \A v \in hostStep'.posted :
          /\ delivered'[v].content # lastSentContent
          /\ lastSentContent' = delivered'[v].content
     /\ hostStep'.op = "resume" => lastSentContent' = handlers[1].content
     /\ hostStep'.op = "same" => lastSentContent' = docText
    ]_vars

\* An update message has been posted after an edit message was handled
C27_Witness ==
  /\ hostStep.op = "external"
  /\ hostStep.posted # {}
  /\ hostInputs = MaxHostInputs
  /\ \A v \in hostStep.posted : lastSentContent = delivered[v].content

\* C28: the commit of an update message that carries, up to the line ends, the
\* Document the user's last edit produced, with no edit and no other commit
\* since that edit, skips: the rich editor's content, the stored preamble and
\* the cache stay as they are.
C28_EchoIsNoOp ==
  [][(/\ lastCommit.edited /\ ~lastCommit'.edited
      /\ lastEdit.cause = "user"
      /\ ReplaceCRLF(lastCommit'.content) = ReplaceCRLF(lastEdit.content))
       => /\ lastStep' = "skip"
          /\ UNCHANGED <<editorMarkdown, currentFrontmatter, currentFrontmatterRawBlock,
                         lastKnownMarkdown, loadedDoc, creating, mounted>>
    ]_vars

\* The edit has come back with other line ends and its commit has skipped
C28_Witness ==
  /\ lastCommit.step = "skip" /\ ~lastCommit.edited
  /\ lastEdit.cause = "user"
  /\ lastCommit.content # lastEdit.content
  /\ ReplaceCRLF(lastCommit.content) = ReplaceCRLF(lastEdit.content)

\* C29: a commit skips exactly when the pending content and the cache are the
\* same text once every CRLF is an LF; for any other difference the pending
\* content is loaded into the rich editor, by replaceAll or, when that throws,
\* by creating the editor again.
C29_SkipIffEqualUpToLineEnds ==
  [][(pendingUpdate # NULL /\ pendingUpdate' = NULL)
       => IF ReplaceCRLF(pendingUpdate) = ReplaceCRLF(lastKnownMarkdown)
            THEN /\ lastStep' = "skip"
                 /\ UNCHANGED <<editorMarkdown, loadedDoc, lastKnownMarkdown>>
            ELSE /\ lastStep' \in {"apply", "reinitializeEditor"}
                 /\ loadedDoc' = pendingUpdate
                 /\ lastKnownMarkdown' = pendingUpdate
                 /\ lastStep' = "apply"
                      => editorMarkdown' = Serialized(safeEditorContent(pendingUpdate))
    ]_vars

\* An update that differs from the Document of the user's last edit only in the
\* line end that Document finishes with has been applied
C29_Witness ==
  /\ lastCommit.step = "apply" /\ ~lastCommit.edited
  /\ lastEdit.cause = "user"
  /\ lastEdit.content = lastCommit.content \o <<LF>>

\* C30: a call of the markdownUpdated listener whose markdown is the previous
\* markdown leaves the time of the last local edit, the cache, the pending
\* outgoing edit and the outgoing timer as they are, and so does a replaceAll
\* whose change event comes while isUpdatingFromExtension is set; any other
\* call sets the time to now, the cache to the preamble combined with the
\* sanitised markdown, and that Document as the pending outgoing edit with the
\* outgoing timer armed for it.
C30_ListenerFrame ==
  [][LET fired == listenerPending # NoCall /\ listenerPending' = NoCall
         call == IF fired THEN listenerPending
                          ELSE [markdown |-> editorMarkdown', prevMarkdown |-> editorMarkdown]
         outgoing(ts) == { t \in ts : t.fn = "outgoing" }
     IN /\ fired => lastStep' \in {"edit", "ignored"}
        /\ (inputs' # inputs /\ editorMarkdown' # editorMarkdown) => lastStep' = "edit"
        /\ lastStep' = "ignored"
             => /\ call.markdown = call.prevMarkdown \/ isUpdatingFromExtension
                /\ UNCHANGED <<lastLocalEditAt, lastKnownMarkdown, pendingOutgoingEdit,
                               outgoingEditTimer, timers>>
        /\ lastStep' = "apply"
             => /\ UNCHANGED <<lastLocalEditAt, pendingOutgoingEdit, outgoingEditTimer>>
                /\ outgoing(timers') = outgoing(timers)
        /\ lastStep' = "edit"
             => /\ call.markdown # call.prevMarkdown /\ ~isUpdatingFromExtension
                /\ lastLocalEditAt' = now
                /\ lastKnownMarkdown' =
                     combineFrontmatter(currentFrontmatterRawBlock,
                                        sanitizeOutgoingMarkdown(call.markdown))
                /\ pendingOutgoingEdit' = lastKnownMarkdown'
                /\ outgoing(timers') =
                     { [id |-> outgoingEditTimer', fn |-> "outgoing",
                        due |-> now + OUTGOING_EDIT_DEBOUNCE_MS] }
    ]_vars

\* A change event that changes nothing has come while an edit is waiting to
\* be sent
C30_Witness ==
  /\ lastStep = "ignored"
  /\ lastEdit.cause = "user"
  /\ pendingOutgoingEdit = lastEdit.content
  /\ outgoingEditTimer # NoTimer

\* C31: when restoring the selection throws after replaceAll has succeeded, the
\* rich editor holds the new content, the cache is the update's Document, the
\* editor is not created again and isUpdatingFromExtension is FALSE after the
\* step.
C31_RestoreFailureNotFatal ==
  [][(pendingUpdate # NULL /\ pendingUpdate' = NULL /\ lastCommit'.restoreThrew)
       => /\ lastStep' = "apply"
          /\ editorMarkdown' = Serialized(safeEditorContent(pendingUpdate))
          /\ lastKnownMarkdown' = pendingUpdate
          /\ loadedDoc' = pendingUpdate
          /\ UNCHANGED <<creating, mounted, editor>>
          /\ ~isUpdatingFromExtension'
    ]_vars

\* A replacement whose selection could not be restored has been kept
C31_Witness ==
  /\ lastStep = "apply" /\ lastCommit.restoreThrew
  /\ lastKnownMarkdown = lastCommit.content
  /\ mounted /\ creating = <<>>

\* C32: the position the selection is restored at is
\* min(max(1, anchor), docLength - 1), and it lies in 0 .. docLength.
C32_RestoredInsideDocument ==
  cursorDone
    => /\ cursorRestored = Min({Max({1, cursorAnchor}), cursorDocLength - 1})
       /\ 0 <= cursorRestored /\ cursorRestored <= cursorDocLength

\* The selection has been restored in the smallest document from an anchor
\* beyond its end
C32_Witness ==
  /\ cursorDone
  /\ cursorDocLength = MinDocLength
  /\ cursorAnchor > cursorDocLength

\* C33: at most one inbound timer and at most one outgoing timer are armed, each
\* the one its handle names; the pending update is the content of the last
\* update message and the pending outgoing edit the Document of the last edit;
\* the outgoing timer is due 16 ms after that edit and the inbound timer no
\* earlier than 30 ms after that update.
C33_OneTimerPerDirection ==
  LET inbound == { t \in timers : t.fn = "applyPendingUpdate" }
      outgoing == { t \in timers : t.fn = "outgoing" }
  IN /\ Cardinality(inbound) <= 1
     /\ Cardinality(outgoing) <= 1
     /\ \A t \in inbound : t.id = updateDebounceTimer
     /\ \A t \in outgoing : t.id = outgoingEditTimer
     /\ pendingUpdate # NULL
          => /\ pendingUpdate = lastUpdate.content
             /\ \A t \in inbound : t.due >= lastUpdate.at + UPDATE_DEBOUNCE_MS
     /\ pendingOutgoingEdit # NULL
          => /\ pendingOutgoingEdit = lastEdit.content
             /\ \A t \in outgoing : t.due = lastEdit.at + OUTGOING_EDIT_DEBOUNCE_MS

\* A second update has overwritten the pending one while an edit waits to be
\* sent, and both directions have their timer armed
C33_Witness ==
  /\ pendingUpdate # NULL /\ lastUpdate.n >= 2
  /\ pendingOutgoingEdit # NULL
  /\ \E t \in timers : t.fn = "applyPendingUpdate"
  /\ \E t \in timers : t.fn = "outgoing"

\* C34: an update message does to everything but currentVersion what
\* updateEditorContent does with its content, whatever version it carries and
\* whatever version is stored; no other step changes currentVersion, and the
\* messages posted to the host carry no version.
C34_VersionAdvisory ==
  [][/\ lastStep' \in {"update", "initializeEditor"}
          => /\ updateEditorContent(hostText')
             /\ currentVersion' \in 1..MaxVersion
             /\ UNCHANGED <<editor, isUpdatingFromExtension, lastLocalEditAt,
                            pendingOutgoingEdit, outgoingEditTimer, editorMarkdown,
                            anchor, mounted, posted, listenerPending>>
     /\ lastStep' \notin {"update", "initializeEditor"} => UNCHANGED currentVersion
     /\ \A i \in 1..Len(posted') : DOMAIN posted'[i] = {"type", "content"}
    ]_vars

\* Two update messages with the version of the one before have each been
\* taken into the pending slot
C34_Witness ==
  /\ lastStep = "update"
  /\ currentVersion = 1
  /\ lastUpdate.n >= 2
  /\ pendingUpdate = lastUpdate.content


\* C35: a step that executes a quick-insert command removes from the block
\* exactly the trigger character followed by the query (the text between the
\* end of the trigger and the cursor) and nothing else, and leaves the menu
\* hidden and the trigger position reset.  Stated for executions with no
\* checkForSlashTrigger callback pending.
C35_ExecuteDeletesTriggerAndQuery ==
  [][executed' # NoCommand /\ slashChecks = 0 =>
       /\ executed'.deleted = <<SLASH>> \o getSlashQuery
       /\ textInBlock' \o executed'.deleted = textInBlock
       /\ textAfterCursor' = textAfterCursor
       /\ ~slashMenuVisible'
       /\ slashTriggerPos' = NoPos]_vars


\* C40: while the quick-insert menu is visible and no checkForSlashTrigger
\* callback is pending, the selected index is a number, and when the query
\* leaves at least one command it is the index of one of them.
C40_SelectedIndexInRange ==
  slashMenuVisible /\ slashChecks = 0 =>
    /\ slashMenuSelectedIndex # NaN
    /\ LET n == Len(getFilteredCommands(getSlashQuery))
       IN n > 0 => slashMenuSelectedIndex \in 0..(n - 1)


C37_FlagEventuallyReleased ==
  \A v \in Views : isInternalChange[v] ~> ~isInternalChange[v]

\* C37 witness: the release callback of an edit has just run, nothing is left
\* to run, and the flag of its manager is clear
C37_Witness ==
  /\ hostStep.op = "release"
  /\ ~isInternalChange[hostStep.view]
  /\ handlers = <<>>
  /\ releaseTimers = <<>>


LoadSteps == {"initializeEditor", "apply", "reinitializeEditor"}

====
